---------------------------- MODULE Spec2Model ----------------------------
(***************************************************************************)
(* Model of the two comparison scripts of the repository                   *)
(*   compare_analysis/compare_analysis_per_sentence.py  (Mode A,           *)
(*       compare_json_files: sentence by sentence, token by token)         *)
(*   compare_analysis/compare_analysis_per_word.py      (Mode B,           *)
(*       compare_analyses: token by token over the flattened documents)    *)
(* and of two batch programs:                                              *)
(*   obtain_dictionary/00__batch_scraper_wrapper.py (BatchScraperManager)  *)
(*   process_dictionary/00_paraphrase.py            (DictionaryParaphraser)*)
(*                                                                         *)
(* A decoded JSON value is a tagged record:                                *)
(*   [t |-> "null"]                       None                             *)
(*   [t |-> "str",  s  |-> "..."]         a str                            *)
(*   [t |-> "list", xs |-> <<v1, ...>>]   a list                           *)
(*   [t |-> "dict", items |-> <<[k |-> key, v |-> value], ...>>]           *)
(*        a dict: its items in insertion order (the order of the file),    *)
(*        keys unique.  Equality of dicts ignores the order, repr keeps it.*)
(***************************************************************************)
EXTENDS Integers, Sequences, FiniteSets, TLC

VARIABLES
    fs,             \* the input files: path -> what open()/json.load() finds
    disk,           \* whether output_path can be opened and written
    out,            \* the file at output_path: [exists, text]
    stdout,         \* the lines printed by the last invocation
    runs,           \* number of invocations so far
    mode,           \* script of the last invocation: "A", "B" or "none"
    file1_path,     \* arguments of the last invocation
    file2_path,
    data1,          \* locals of the last invocation
    data2,
    discrepancies,
    status,         \* how the last invocation ended
    prev,           \* what the invocation before the last one wrote
    manager,        \* the BatchScraperManager of the current process
    output_dir,     \* its output directory: progress.json and the batch files
    scraper_runs,   \* number of processes of the batch scraper so far
    paraphraser,    \* the locals of process_dictionary_file in the current process
    original_dict,  \* the input dictionary of the paraphraser
    output_file,    \* the output file of the paraphraser
    processed,      \* the lemmas some process of the paraphraser has handled
    paraphraser_runs \* number of processes of the paraphraser so far

scraper_vars == <<manager, output_dir, scraper_runs>>
paraphraser_vars == <<paraphraser, original_dict, output_file, processed, paraphraser_runs>>

vars == <<fs, disk, out, stdout, runs, mode, file1_path, file2_path,
          data1, data2, discrepancies, status, prev,
          manager, output_dir, scraper_runs,
          paraphraser, original_dict, output_file, processed, paraphraser_runs>>

---------------------------------------------------------------------------
(* Bounds of the model *)

MaxSentences == 2
MaxTokens == 1
MaxRuns == 2

---------------------------------------------------------------------------
(* Decoded JSON values and the Python operations the scripts apply to them *)

JNull == [t |-> "null"]
JStr(s) == [t |-> "str", s |-> s]
JList(xs) == [t |-> "list", xs |-> xs]
JDict(items) == [t |-> "dict", items |-> items]
Item(k, v) == [k |-> k, v |-> v]

\* d.keys()
Keys(d) == {d.items[n].k : n \in DOMAIN d.items}

\* d.get(k, default)
GetOr(d, k, default) ==
    IF k \in Keys(d)
    THEN (d.items[CHOOSE n \in DOMAIN d.items : d.items[n].k = k]).v
    ELSE default

\* a lookup that tells an absent key from None
GetOrMissing(d, k) == GetOr(d, k, JStr("<missing>"))

\* d.get(k): None when the key is absent
Get(d, k) == GetOr(d, k, JNull)

\* isinstance(v, dict)
IsDict(v) == v.t = "dict"

\* v1 == v2 on decoded JSON values: dicts are equal when they hold the same
\* keys with equal values, whatever their insertion orders; lists are equal
\* elementwise.
RECURSIVE PyEq(_, _)
PyEq(v1, v2) ==
    /\ v1.t = v2.t
    /\ CASE v1.t = "null" -> TRUE
         [] v1.t = "str"  -> v1.s = v2.s
         [] v1.t = "list" -> /\ Len(v1.xs) = Len(v2.xs)
                             /\ \A n \in DOMAIN v1.xs : PyEq(v1.xs[n], v2.xs[n])
         [] v1.t = "dict" -> /\ Keys(v1) = Keys(v2)
                             /\ \A k \in Keys(v1) : PyEq(Get(v1, k), Get(v2, k))

\* v1 != v2 as a comparison of the serialised values, which tells apart two
\* dicts of the same items in different orders
PyNeSerialised(v1, v2) == v1 # v2

\* v1 != v2
PyNe(v1, v2) == ~PyEq(v1, v2)

\* "sep".join(strs)
RECURSIVE Join(_, _)
Join(sep, strs) ==
    IF strs = <<>> THEN ""
    ELSE IF Len(strs) = 1 THEN strs[1]
    ELSE strs[1] \o sep \o Join(sep, Tail(strs))

\* repr(v), and f"{v}" (str(v)): a str is formatted bare by f"{v}" and quoted
\* by repr; None is 'None'; dicts and lists show the repr of their parts in
\* insertion order.
RECURSIVE Repr(_)
Repr(v) ==
    CASE v.t = "null" -> "None"
      [] v.t = "str"  -> "'" \o v.s \o "'"
      [] v.t = "list" -> "[" \o Join(", ", [n \in DOMAIN v.xs |-> Repr(v.xs[n])]) \o "]"
      [] v.t = "dict" -> "{" \o Join(", ", [n \in DOMAIN v.items |->
                                 "'" \o v.items[n].k \o "': " \o Repr(v.items[n].v)]) \o "}"

Fmt(v) == IF v.t = "str" THEN v.s ELSE Repr(v)

---------------------------------------------------------------------------
(* sorted(list(a_set_of_str)) *)

\* The key names the model's documents use, in the order Python's str
\* comparison (code points) gives them.
Lexicographic ==
    <<"case", "dictionary_entry_nl", "gloss", "lemma", "number",
      "parsing_details", "token", "translation_en", "translation_fr",
      "translation_nl">>

KeyNames == {Lexicographic[n] : n \in DOMAIN Lexicographic}

Rank(k) == CHOOSE n \in DOMAIN Lexicographic : Lexicographic[n] = k

\* a < b on str
StrLt(a, b) == Rank(a) < Rank(b)

\* Iterating a set of str visits it in the order of the hashes, which differ
\* from one interpreter process to the next (hash randomisation): a process
\* is given one of these orders.
HashOrders ==
    { Lexicographic,
      [n \in DOMAIN Lexicographic |-> Lexicographic[Len(Lexicographic) + 1 - n]],
      <<"token", "gloss", "case", "translation_nl", "parsing_details", "lemma",
        "number", "translation_fr", "dictionary_entry_nl", "translation_en">> }

\* list(s)
SetIter(s, order) == SelectSeq(order, LAMBDA k : k \in s)

\* insertion of k into an ascending sequence
RECURSIVE Insert(_, _)
Insert(k, sorted) ==
    IF sorted = <<>> THEN <<k>>
    ELSE IF StrLt(k, Head(sorted)) THEN <<k>> \o sorted
    ELSE <<Head(sorted)>> \o Insert(k, Tail(sorted))

\* the sequence as it is
Unsorted(seq) == seq

\* sorted(seq, reverse=True)
SortedDescending(seq) ==
    SelectSeq([n \in DOMAIN Lexicographic |-> Lexicographic[Len(Lexicographic) + 1 - n]],
              LAMBDA k : \E m \in DOMAIN seq : seq[m] = k)

\* sorted(seq)
RECURSIVE Sorted(_)
Sorted(seq) == IF seq = <<>> THEN <<>> ELSE Insert(Head(seq), Sorted(Tail(seq)))

---------------------------------------------------------------------------
(* The lines of a report.  A line is the string the script appends, kept   *)
(* together with what it is about: its kind, the sentence number, the      *)
(* token position, the field and the file it names (0 or "" when the line  *)
(* names none).                                                            *)

Line(kind, sent, pos, key, file, text) ==
    [kind |-> kind, sent |-> sent, pos |-> pos, key |-> key, file |-> file,
     text |-> text]

Texts(lines) == [n \in DOMAIN lines |-> lines[n].text]

\* '='*20
Equals20 == "===================="

---------------------------------------------------------------------------
(* Mode A: compare_analysis_per_sentence.py, compare_json_files            *)

keys_to_ignore_global == {"translation_nl", "translation_en", "translation_fr"}
keys_to_ignore_token_without_gloss == {"dictionary_entry_nl"}
keys_to_ignore_token_without_entry == {"gloss"}
keys_to_ignore_token == {"dictionary_entry_nl", "gloss"}

\* data.get("sentences", [])
SentencesOf(data) == GetOr(data, "sentences", JList(<<>>)).xs

\* sentence.get("analysis", [])
AnalysisOf(sentence) == GetOr(sentence, "analysis", JList(<<>>)).xs

\* The lines for the sub-fields of 'parsing_details' that differ.
DetailLines(key, val1, val2, i, j, order) ==
    LET detail_keys == Keys(val1) \cup Keys(val2)
        ds == Sorted(SetIter(detail_keys, order))
        F[n \in 0..Len(ds)] ==
            IF n = 0 THEN <<>>
            ELSE LET d_key == ds[n]
                     d_val1 == Get(val1, d_key)
                     d_val2 == Get(val2, d_key)
                 IN  F[n-1] \o
                     (IF PyNe(d_val1, d_val2)
                      THEN << Line("field", i+1, j+1, key \o "." \o d_key, 0,
                                   "  - Verschil in '" \o key \o "." \o d_key \o "':"),
                              Line("value", i+1, j+1, key \o "." \o d_key, 1,
                                   "      Bestand 1: " \o Fmt(d_val1)),
                              Line("value", i+1, j+1, key \o "." \o d_key, 2,
                                   "      Bestand 2: " \o Fmt(d_val2)) >>
                      ELSE <<>>)
    IN  F[Len(ds)]

\* The lines for one field, parsing_details like any other.
FieldLinesWhole(key, val1, val2, i, j, order) ==
    << Line("field", i+1, j+1, key, 0, "  - Verschil in '" \o key \o "':"),
       Line("value", i+1, j+1, key, 1, "      Bestand 1: " \o Fmt(val1)),
       Line("value", i+1, j+1, key, 2, "      Bestand 2: " \o Fmt(val2)) >>

\* The lines for one field whose two values differ.
FieldLines(key, val1, val2, i, j, order) ==
    IF key = "parsing_details" /\ IsDict(val1) /\ IsDict(val2)
    THEN DetailLines(key, val1, val2, i, j, order)
    ELSE << Line("field", i+1, j+1, key, 0, "  - Verschil in '" \o key \o "':"),
            Line("value", i+1, j+1, key, 1, "      Bestand 1: " \o Fmt(val1)),
            Line("value", i+1, j+1, key, 2, "      Bestand 2: " \o Fmt(val2)) >>

\* The reference to a token in its header.
TokenRef(token1, token2) ==
    IF PyEq(Get(token1, "token"), Get(token2, "token"))
    THEN Fmt(Get(token1, "token"))
    ELSE Fmt(Get(token1, "token")) \o "/" \o Fmt(Get(token2, "token"))

\* The same with the header before the lines of every field that differs.
TokenDiscrepanciesHeaderEach(token1, token2, i, j, order) ==
    LET all_keys == (Keys(token1) \cup Keys(token2)) \ keys_to_ignore_token
        ks == Sorted(SetIter(all_keys, order))
        header == Line("token_header", i+1, j+1, "", 0,
                       "\nDiscrepanties voor token '" \o TokenRef(token1, token2)
                           \o "' (positie " \o ToString(j+1) \o "):")
        F[n \in 0..Len(ks)] ==
            IF n = 0 THEN <<>>
            ELSE LET key == ks[n]
                     val1 == Get(token1, key)
                     val2 == Get(token2, key)
                     token_discrepancies == F[n-1]
                 IN  IF PyNe(val1, val2)
                     THEN token_discrepancies \o <<header>>
                          \o FieldLines(key, val1, val2, i, j, order)
                     ELSE token_discrepancies
    IN  F[Len(ks)]

\* token_discrepancies of two tokens present on both sides, at position j of
\* sentence i (both from 0).
TokenDiscrepancies(token1, token2, i, j, order) ==
    LET all_keys == (Keys(token1) \cup Keys(token2)) \ keys_to_ignore_token
        ks == Sorted(SetIter(all_keys, order))
        header == Line("token_header", i+1, j+1, "", 0,
                       "\nDiscrepanties voor token '" \o TokenRef(token1, token2)
                           \o "' (positie " \o ToString(j+1) \o "):")
        F[n \in 0..Len(ks)] ==
            IF n = 0 THEN <<>>
            ELSE LET key == ks[n]
                     val1 == Get(token1, key)
                     val2 == Get(token2, key)
                     token_discrepancies == F[n-1]
                 IN  IF PyNe(val1, val2)
                     THEN (IF token_discrepancies = <<>> THEN <<header>>
                           ELSE token_discrepancies)
                          \o FieldLines(key, val1, val2, i, j, order)
                     ELSE token_discrepancies
    IN  F[Len(ks)]

\* The same with a token one side lacks compared with the empty mapping.
TokenStepComparing(analysis1, analysis2, i, j, order) ==
    IF j >= Len(analysis1)
    THEN << Line("token_missing", i+1, j+1, "", 1,
                 "  - Token '" \o Fmt(Get(analysis2[j+1], "token")) \o "' (pos "
                     \o ToString(j+1) \o ") ontbreekt in bestand 1.") >>
         \o TokenDiscrepancies(JDict(<<>>), analysis2[j+1], i, j, order)
    ELSE IF j >= Len(analysis2)
    THEN << Line("token_missing", i+1, j+1, "", 2,
                 "  - Token '" \o Fmt(Get(analysis1[j+1], "token")) \o "' (pos "
                     \o ToString(j+1) \o ") ontbreekt in bestand 2.") >>
         \o TokenDiscrepancies(analysis1[j+1], JDict(<<>>), i, j, order)
    ELSE TokenDiscrepancies(analysis1[j+1], analysis2[j+1], i, j, order)

\* What position j of sentence i adds to sentence_discrepancies.
TokenStep(analysis1, analysis2, i, j, order) ==
    IF j >= Len(analysis1)
    THEN << Line("token_missing", i+1, j+1, "", 1,
                 "  - Token '" \o Fmt(Get(analysis2[j+1], "token")) \o "' (pos "
                     \o ToString(j+1) \o ") ontbreekt in bestand 1.") >>
    ELSE IF j >= Len(analysis2)
    THEN << Line("token_missing", i+1, j+1, "", 2,
                 "  - Token '" \o Fmt(Get(analysis1[j+1], "token")) \o "' (pos "
                     \o ToString(j+1) \o ") ontbreekt in bestand 2.") >>
    ELSE TokenDiscrepancies(analysis1[j+1], analysis2[j+1], i, j, order)

Max(a, b) == IF a >= b THEN a ELSE b

\* The same with the tokens compared only when the texts are equal.
SentenceDiscrepanciesTextFirst(sentence1, sentence2, i, order) ==
    LET text1 == Get(sentence1, "sentence_text")
        text2 == Get(sentence2, "sentence_text")
        analysis1 == AnalysisOf(sentence1)
        analysis2 == AnalysisOf(sentence2)
        max_tokens == Max(Len(analysis1), Len(analysis2))
        F[n \in 0..max_tokens] ==
            IF n = 0 THEN <<>>
            ELSE F[n-1] \o TokenStep(analysis1, analysis2, i, n-1, order)
    IN  IF PyNe(text1, text2)
        THEN << Line("text_header", i+1, 0, "sentence_text", 0,
                     "Verschil in de Griekse brontekst (zin " \o ToString(i+1) \o "):"),
                Line("text_value", i+1, 0, "sentence_text", 1,
                     "  Bestand 1: " \o Fmt(text1)),
                Line("text_value", i+1, 0, "sentence_text", 2,
                     "  Bestand 2: " \o Fmt(text2)) >>
        ELSE F[max_tokens]

\* sentence_discrepancies of two sentences present on both sides.
SentenceDiscrepancies(sentence1, sentence2, i, order) ==
    LET text1 == Get(sentence1, "sentence_text")
        text2 == Get(sentence2, "sentence_text")
        text_lines ==
            IF PyNe(text1, text2)
            THEN << Line("text_header", i+1, 0, "sentence_text", 0,
                         "Verschil in de Griekse brontekst (zin " \o ToString(i+1) \o "):"),
                    Line("text_value", i+1, 0, "sentence_text", 1,
                         "  Bestand 1: " \o Fmt(text1)),
                    Line("text_value", i+1, 0, "sentence_text", 2,
                         "  Bestand 2: " \o Fmt(text2)) >>
            ELSE <<>>
        analysis1 == AnalysisOf(sentence1)
        analysis2 == AnalysisOf(sentence2)
        max_tokens == Max(Len(analysis1), Len(analysis2))
        F[n \in 0..max_tokens] ==
            IF n = 0 THEN text_lines
            ELSE F[n-1] \o TokenStep(analysis1, analysis2, i, n-1, order)
    IN  F[max_tokens]

\* The same with the two notices exchanged.
SentenceStepExchanged(sentences1, sentences2, i, order) ==
    IF i >= Len(sentences1)
    THEN << Line("sentence_missing", i+1, 0, "", 2,
                 "Zin " \o ToString(i+1)
                     \o " ontbreekt in bestand 2, maar bestaat wel in bestand 1.") >>
    ELSE IF i >= Len(sentences2)
    THEN << Line("sentence_missing", i+1, 0, "", 1,
                 "Zin " \o ToString(i+1)
                     \o " ontbreekt in bestand 1, maar bestaat wel in bestand 2.") >>
    ELSE LET sentence_discrepancies ==
                 SentenceDiscrepancies(sentences1[i+1], sentences2[i+1], i, order)
         IN  IF sentence_discrepancies # <<>>
             THEN << Line("sentence_header", i+1, 0, "", 0,
                          "\n" \o Equals20 \o " ZIN " \o ToString(i+1) \o " " \o Equals20) >>
                  \o sentence_discrepancies
             ELSE <<>>

\* The same with a header for every sentence present on both sides.
SentenceStepHeaderAlways(sentences1, sentences2, i, order) ==
    IF i >= Len(sentences1)
    THEN << Line("sentence_missing", i+1, 0, "", 1,
                 "Zin " \o ToString(i+1)
                     \o " ontbreekt in bestand 1, maar bestaat wel in bestand 2.") >>
    ELSE IF i >= Len(sentences2)
    THEN << Line("sentence_missing", i+1, 0, "", 2,
                 "Zin " \o ToString(i+1)
                     \o " ontbreekt in bestand 2, maar bestaat wel in bestand 1.") >>
    ELSE << Line("sentence_header", i+1, 0, "", 0,
                 "\n" \o Equals20 \o " ZIN " \o ToString(i+1) \o " " \o Equals20) >>
         \o SentenceDiscrepancies(sentences1[i+1], sentences2[i+1], i, order)

\* What sentence index i adds to discrepancies.
SentenceStep(sentences1, sentences2, i, order) ==
    IF i >= Len(sentences1)
    THEN << Line("sentence_missing", i+1, 0, "", 1,
                 "Zin " \o ToString(i+1)
                     \o " ontbreekt in bestand 1, maar bestaat wel in bestand 2.") >>
    ELSE IF i >= Len(sentences2)
    THEN << Line("sentence_missing", i+1, 0, "", 2,
                 "Zin " \o ToString(i+1)
                     \o " ontbreekt in bestand 2, maar bestaat wel in bestand 1.") >>
    ELSE LET sentence_discrepancies ==
                 SentenceDiscrepancies(sentences1[i+1], sentences2[i+1], i, order)
         IN  IF sentence_discrepancies # <<>>
             THEN << Line("sentence_header", i+1, 0, "", 0,
                          "\n" \o Equals20 \o " ZIN " \o ToString(i+1) \o " " \o Equals20) >>
                  \o sentence_discrepancies
             ELSE <<>>

\* discrepancies after the loop over the sentence indices.
DiscrepanciesA(d1, d2, order) ==
    LET sentences1 == SentencesOf(d1)
        sentences2 == SentencesOf(d2)
        max_sentences == Max(Len(sentences1), Len(sentences2))
        F[n \in 0..max_sentences] ==
            IF n = 0 THEN <<>>
            ELSE F[n-1] \o SentenceStep(sentences1, sentences2, n-1, order)
    IN  F[max_sentences]

NoDiscrepanciesA ==
    "Geen discrepanties gevonden tussen de opgegeven bestanden (met uitzondering van de genegeerde velden).\n"

\* a report that is the title and the lines, also when there is no line
WritesATitleAlways(lines) ==
    << "Resultaten van de vergelijking tussen JSON-bestanden\n",
       "====================================================\n",
       Join("\n", Texts(lines)) >>

\* a report that shows the first path of the invocation before
WritesARemembering(lines) ==
    << "Vorige vergelijking: " \o file1_path \o "\n" >>
        \o (IF lines # <<>>
            THEN << "Resultaten van de vergelijking tussen JSON-bestanden\n",
                    "====================================================\n",
                    Join("\n", Texts(lines)) >>
            ELSE << NoDiscrepanciesA >>)

\* What the f_out.write calls write, in order.
WritesA(lines) ==
    IF lines # <<>>
    THEN << "Resultaten van de vergelijking tussen JSON-bestanden\n",
            "====================================================\n",
            Join("\n", Texts(lines)) >>
    ELSE << NoDiscrepanciesA >>

---------------------------------------------------------------------------
(* Mode B: compare_analysis_per_word.py, flatten_tokens, compare_analyses  *)

keys_to_ignore_token_B_without_gloss == {"dictionary_entry_nl"}
keys_to_ignore_token_B == {"dictionary_entry_nl", "gloss"}

\* all_tokens when it is emptied at every sentence
flatten_tokens_last(data) ==
    LET sentences == GetOr(data, "sentences", JList(<<>>)).xs
    IN  IF sentences = <<>> THEN <<>>
        ELSE GetOr(sentences[Len(sentences)], "analysis", JList(<<>>)).xs

\* all_tokens after the loop over data.get("sentences", [])
flatten_tokens(data) ==
    LET sentences == GetOr(data, "sentences", JList(<<>>)).xs
        F[n \in 0..Len(sentences)] ==
            IF n = 0 THEN <<>>
            ELSE F[n-1] \o GetOr(sentences[n], "analysis", JList(<<>>)).xs
    IN  F[Len(sentences)]

\* data after flatten_tokens(data), had all_tokens been the analysis list
\* of the first sentence instead of a new list
data_after_flatten_tokens_aliased(data) ==
    IF data.t # "dict" THEN data
    ELSE LET sentences == GetOr(data, "sentences", JList(<<>>)).xs
         IN  IF sentences = <<>> \/ "analysis" \notin Keys(sentences[1]) THEN data
             ELSE LET first ==
                          JDict([n \in DOMAIN sentences[1].items |->
                                    IF sentences[1].items[n].k = "analysis"
                                    THEN Item("analysis", JList(flatten_tokens(data)))
                                    ELSE sentences[1].items[n]])
                  IN  JDict([n \in DOMAIN data.items |->
                                IF data.items[n].k = "sentences"
                                THEN Item("sentences",
                                          JList(<<first>> \o Tail(sentences)))
                                ELSE data.items[n]])

\* data after flatten_tokens(data): all_tokens is a list of its own, extend
\* copies references into it, and nothing is stored into data, its sentences
\* or its analysis lists.
data_after_flatten_tokens(data) == data

DetailLinesB(key, val1, val2, i, order) ==
    LET detail_keys == Keys(val1) \cup Keys(val2)
        ds == Sorted(SetIter(detail_keys, order))
        F[n \in 0..Len(ds)] ==
            IF n = 0 THEN <<>>
            ELSE LET d_key == ds[n]
                     d_val1 == Get(val1, d_key)
                     d_val2 == Get(val2, d_key)
                 IN  F[n-1] \o
                     (IF PyNe(d_val1, d_val2)
                      THEN << Line("field", 0, i+1, key \o "." \o d_key, 0,
                                   "  - Verschil in '" \o key \o "." \o d_key \o "':"),
                              Line("value", 0, i+1, key \o "." \o d_key, 1,
                                   "      Bestand 1: " \o Fmt(d_val1)),
                              Line("value", 0, i+1, key \o "." \o d_key, 2,
                                   "      Bestand 2: " \o Fmt(d_val2)) >>
                      ELSE <<>>)
    IN  F[Len(ds)]

\* The same without the treatment of parsing_details.
FieldLinesBWhole(key, val1, val2, i, order) ==
    << Line("field", 0, i+1, key, 0, "  - Verschil in '" \o key \o "':"),
       Line("value", 0, i+1, key, 1, "      Bestand 1: " \o Fmt(val1)),
       Line("value", 0, i+1, key, 2, "      Bestand 2: " \o Fmt(val2)) >>

FieldLinesB(key, val1, val2, i, order) ==
    IF key = "parsing_details" /\ IsDict(val1) /\ IsDict(val2)
    THEN DetailLinesB(key, val1, val2, i, order)
    ELSE << Line("field", 0, i+1, key, 0, "  - Verschil in '" \o key \o "':"),
            Line("value", 0, i+1, key, 1, "      Bestand 1: " \o Fmt(val1)),
            Line("value", 0, i+1, key, 2, "      Bestand 2: " \o Fmt(val2)) >>

TokenRefB(token1, token2) ==
    IF PyEq(Get(token1, "token"), Get(token2, "token"))
    THEN Fmt(Get(token1, "token"))
    ELSE Fmt(Get(token1, "token")) \o "/" \o Fmt(Get(token2, "token"))

\* token_discrepancies of two tokens at overall position i (from 0).
TokenDiscrepanciesB(token1, token2, i, order) ==
    LET all_keys == (Keys(token1) \cup Keys(token2)) \ keys_to_ignore_token_B
        ks == Sorted(SetIter(all_keys, order))
        header == Line("token_header", 0, i+1, "", 0,
                       "\n--- Discrepantie voor token '" \o TokenRefB(token1, token2)
                           \o "' op algehele positie " \o ToString(i+1) \o " ---")
        F[n \in 0..Len(ks)] ==
            IF n = 0 THEN <<>>
            ELSE LET key == ks[n]
                     val1 == Get(token1, key)
                     val2 == Get(token2, key)
                     token_discrepancies == F[n-1]
                 IN  IF PyNe(val1, val2)
                     THEN (IF token_discrepancies = <<>> THEN <<header>>
                           ELSE token_discrepancies)
                          \o FieldLinesB(key, val1, val2, i, order)
                     ELSE token_discrepancies
    IN  F[Len(ks)]

\* The same with the extra tokens of one file given as those of the other.
TokenStepBExchanged(tokens1, tokens2, i, order) ==
    IF ~(i < Len(tokens1))
    THEN << Line("extra_header", 0, i+1, "", 1,
                 "\n--- Extra token in Bestand 1 op algehele positie "
                     \o ToString(i+1) \o " ---"),
            Line("extra_token", 0, i+1, "", 1,
                 "  Token: '" \o Fmt(Get(tokens2[i+1], "token")) \o "'") >>
    ELSE IF ~(i < Len(tokens2))
    THEN << Line("extra_header", 0, i+1, "", 2,
                 "\n--- Extra token in Bestand 2 op algehele positie "
                     \o ToString(i+1) \o " ---"),
            Line("extra_token", 0, i+1, "", 2,
                 "  Token: '" \o Fmt(Get(tokens1[i+1], "token")) \o "'") >>
    ELSE TokenDiscrepanciesB(tokens1[i+1], tokens2[i+1], i, order)

\* What overall position i adds to discrepancies.
TokenStepB(tokens1, tokens2, i, order) ==
    IF ~(i < Len(tokens1))
    THEN << Line("extra_header", 0, i+1, "", 2,
                 "\n--- Extra token in Bestand 2 op algehele positie "
                     \o ToString(i+1) \o " ---"),
            Line("extra_token", 0, i+1, "", 2,
                 "  Token: '" \o Fmt(Get(tokens2[i+1], "token")) \o "'") >>
    ELSE IF ~(i < Len(tokens2))
    THEN << Line("extra_header", 0, i+1, "", 1,
                 "\n--- Extra token in Bestand 1 op algehele positie "
                     \o ToString(i+1) \o " ---"),
            Line("extra_token", 0, i+1, "", 1,
                 "  Token: '" \o Fmt(Get(tokens1[i+1], "token")) \o "'") >>
    ELSE TokenDiscrepanciesB(tokens1[i+1], tokens2[i+1], i, order)

\* discrepancies after the loop over the overall positions.
DiscrepanciesB(d1, d2, order) ==
    LET tokens1 == flatten_tokens(d1)
        tokens2 == flatten_tokens(d2)
        max_tokens == Max(Len(tokens1), Len(tokens2))
        F[n \in 0..max_tokens] ==
            IF n = 0 THEN <<>>
            ELSE F[n-1] \o TokenStepB(tokens1, tokens2, n-1, order)
    IN  F[max_tokens]

NoDiscrepanciesB == "\nGeen inhoudelijke discrepanties gevonden in de token-analyses."

\* What the f_out.write calls write, in order.
WritesB(p1, p2, lines) ==
    << "Resultaten van de vergelijking tussen:\n1: " \o p1 \o "\n2: " \o p2 \o "\n",
       "====================================================\n",
       IF lines # <<>> THEN Join("\n", Texts(lines)) ELSE NoDiscrepanciesB >>

---------------------------------------------------------------------------
(* The files, and one invocation of each script                            *)

Paths == {"a.json", "b.json"}

\* What open() and json.load() find at an input path.
NoFile == [kind |-> "missing"]
BadJson == [kind |-> "invalid"]
JsonFile(d) == [kind |-> "json", data |-> d]

\* A local that was never assigned.
Unbound == [t |-> "unbound"]

NoOutput == [exists |-> FALSE, text |-> ""]

\* No process of the batch scraper yet, and an empty output directory.
NoManager == [pc |-> "none"]
EmptyDir == [progress |-> [exists |-> FALSE], batch_files |-> {}]

ScraperIdle ==
    /\ manager = NoManager
    /\ output_dir = EmptyDir
    /\ scraper_runs = 0

\* No process of the paraphraser yet, no input and no output file.
NoParaphraser == [pc |-> "none"]
NoOutputFile == [kind |-> "missing"]

ParaphraserIdle ==
    /\ paraphraser = NoParaphraser
    /\ original_dict = <<>>
    /\ output_file = NoOutputFile
    /\ processed = {}
    /\ paraphraser_runs = 0

\* No invocation yet.
NoPrev ==
    [mode |-> "none", file1_path |-> "", file2_path |-> "", data1 |-> Unbound,
     data2 |-> Unbound, status |-> "none", out |-> NoOutput]

\* a load that reads a second file it cannot load as an empty document
LoadSecondOptional(p1, p2) ==
    LET c1 == fs[p1]
        c2 == fs[p2]
        notfound == "Fout: Bestand niet gevonden - "
        invalid == "Fout: Ongeldig JSON-formaat in een van de bestanden. Details: "
    IN  IF c1.kind = "missing" THEN
            [ok |-> FALSE, d1 |-> Unbound, d2 |-> Unbound, msg |-> notfound \o p1]
        ELSE IF c1.kind = "invalid" THEN
            [ok |-> FALSE, d1 |-> Unbound, d2 |-> Unbound, msg |-> invalid \o "<e>"]
        ELSE IF c2.kind # "json" THEN
            [ok |-> TRUE, d1 |-> c1.data, d2 |-> JDict(<<>>), msg |-> ""]
        ELSE
            [ok |-> TRUE, d1 |-> c1.data, d2 |-> c2.data, msg |-> ""]

\* The try block that loads both files, file 1 first: the first failure
\* ends it.
Load(p1, p2) ==
    LET c1 == fs[p1]
        c2 == fs[p2]
        notfound == "Fout: Bestand niet gevonden - "
        invalid == "Fout: Ongeldig JSON-formaat in een van de bestanden. Details: "
    IN  IF c1.kind = "missing" THEN
            [ok |-> FALSE, d1 |-> Unbound, d2 |-> Unbound, msg |-> notfound \o p1]
        ELSE IF c1.kind = "invalid" THEN
            [ok |-> FALSE, d1 |-> Unbound, d2 |-> Unbound, msg |-> invalid \o "<e>"]
        ELSE IF c2.kind = "missing" THEN
            [ok |-> FALSE, d1 |-> c1.data, d2 |-> Unbound, msg |-> notfound \o p2]
        ELSE IF c2.kind = "invalid" THEN
            [ok |-> FALSE, d1 |-> c1.data, d2 |-> Unbound, msg |-> invalid \o "<e>"]
        ELSE
            [ok |-> TRUE, d1 |-> c1.data, d2 |-> c2.data, msg |-> ""]

Completed == "Vergelijking voltooid. Resultaten zijn opgeslagen in 'out.txt'."
CannotWrite == "Fout: Kan niet schrijven naar het uitvoerbestand 'out.txt'."

\* The try block that writes the report: open(output_path, 'w') and the
\* f_out.write calls.  On a disk that refuses the open the file is left as it
\* was; on a disk that fills up the open has emptied the file and any number
\* of the writes, but not all, have reached it.
Write(writes) ==
    CASE disk = "ok" ->
            /\ out' = [exists |-> TRUE, text |-> Join("", writes)]
            /\ status' = "written"
            /\ stdout' = <<Completed>>
      [] disk = "denied" ->
            /\ out' = out
            /\ status' = "write_error"
            /\ stdout' = <<CannotWrite>>
      [] disk = "full" ->
            /\ \E k \in 0..(Len(writes) - 1) :
                   out' = [exists |-> TRUE, text |-> Join("", SubSeq(writes, 1, k))]
            /\ status' = "write_error"
            /\ stdout' = <<CannotWrite>>

\* What every invocation leaves behind of the one before it.
Remember ==
    prev' = [mode |-> mode, file1_path |-> file1_path, file2_path |-> file2_path,
             data1 |-> data1, data2 |-> data2, status |-> status, out |-> out]

\* compare_json_files refusing a document without "sentences"
CompareJsonFilesStrict(p1, p2, order) ==
    LET load == Load(p1, p2)
        lines == DiscrepanciesA(load.d1, load.d2, order)
        valid == load.ok /\ "sentences" \in Keys(load.d1) \cap Keys(load.d2)
    IN  /\ mode' = "A"
        /\ file1_path' = p1
        /\ file2_path' = p2
        /\ runs' = runs + 1
        /\ Remember
        /\ data1' = load.d1
        /\ data2' = load.d2
        /\ UNCHANGED <<fs, disk, scraper_vars, paraphraser_vars>>
        /\ IF ~valid
           THEN /\ stdout' = <<load.msg>>
                /\ status' = "load_error"
                /\ discrepancies' = <<>>
                /\ out' = out
           ELSE /\ discrepancies' = lines
                /\ Write(WritesA(lines))

\* compare_json_files(p1, p2, "out.txt") in a process whose sets iterate in
\* the given order.
CompareJsonFiles(p1, p2, order) ==
    LET load == Load(p1, p2)
        lines == DiscrepanciesA(load.d1, load.d2, order)
    IN  /\ mode' = "A"
        /\ file1_path' = p1
        /\ file2_path' = p2
        /\ runs' = runs + 1
        /\ Remember
        /\ data1' = load.d1
        /\ data2' = load.d2
        /\ UNCHANGED <<fs, disk, scraper_vars, paraphraser_vars>>
        /\ IF ~load.ok
           THEN /\ stdout' = <<load.msg>>
                /\ status' = "load_error"
                /\ discrepancies' = <<>>
                /\ out' = out
           ELSE /\ discrepancies' = lines
                /\ Write(WritesA(lines))

\* compare_analyses refusing a document without "sentences"
CompareAnalysesStrict(p1, p2, order) ==
    LET load == Load(p1, p2)
        lines == DiscrepanciesB(load.d1, load.d2, order)
        valid == load.ok /\ "sentences" \in Keys(load.d1) \cap Keys(load.d2)
    IN  /\ mode' = "B"
        /\ file1_path' = p1
        /\ file2_path' = p2
        /\ runs' = runs + 1
        /\ Remember
        /\ data1' = data_after_flatten_tokens(load.d1)
        /\ data2' = data_after_flatten_tokens(load.d2)
        /\ UNCHANGED <<fs, disk, scraper_vars, paraphraser_vars>>
        /\ IF ~valid
           THEN /\ stdout' = <<load.msg>>
                /\ status' = "load_error"
                /\ discrepancies' = <<>>
                /\ out' = out
           ELSE /\ discrepancies' = lines
                /\ Write(WritesB(p1, p2, lines))

\* compare_analyses(p1, p2, "out.txt") in a process whose sets iterate in the
\* given order.
CompareAnalyses(p1, p2, order) ==
    LET load == Load(p1, p2)
        lines == DiscrepanciesB(load.d1, load.d2, order)
    IN  /\ mode' = "B"
        /\ file1_path' = p1
        /\ file2_path' = p2
        /\ runs' = runs + 1
        /\ Remember
        /\ data1' = data_after_flatten_tokens(load.d1)
        /\ data2' = data_after_flatten_tokens(load.d2)
        /\ UNCHANGED <<fs, disk, scraper_vars, paraphraser_vars>>
        /\ IF ~load.ok
           THEN /\ stdout' = <<load.msg>>
                /\ status' = "load_error"
                /\ discrepancies' = <<>>
                /\ out' = out
           ELSE /\ discrepancies' = lines
                /\ Write(WritesB(p1, p2, lines))

---------------------------------------------------------------------------
(* The documents the model compares                                        *)

Absent == [t |-> "absent"]

\* The item of a key, when the document has it.
Opt(k, v) == IF v = Absent THEN <<>> ELSE <<Item(k, v)>>

Token(text, gloss, entry, parsing) ==
    JDict(<<Item("token", JStr(text))>> \o Opt("gloss", gloss)
          \o Opt("dictionary_entry_nl", entry) \o Opt("parsing_details", parsing))

Sentence(text, analysis) ==
    JDict(<<Item("sentence_text", JStr(text))>> \o Opt("analysis", analysis))

Document(sentences) == JDict(Opt("sentences", sentences))

TokenTexts == {"logos", "theos"}
GlossVals == {Absent, JStr("word"), JStr("reason")}
EntryVals == {Absent, JStr("woord")}
ParsingVals ==
    { Absent, JNull, JDict(<<>>),
      JDict(<<Item("case", JNull)>>),
      JDict(<<Item("case", JStr("nominative"))>>),
      JDict(<<Item("case", JDict(<<Item("number", JStr("singular"))>>)),
              Item("number", JStr("plural"))>>),
      JDict(<<Item("case", JStr("accusative")), Item("number", JStr("singular"))>>),
      JDict(<<Item("number", JStr("singular")), Item("case", JStr("accusative"))>>) }

\* The mapping with one more key at its end.
With(d, k, v) == JDict(d.items \o <<Item(k, v)>>)

\* Tokens that carry a translation of their own.
TranslatedTokens ==
    { With(Token("logos", JStr("word"), Absent, JDict(<<Item("case", JStr("nominative"))>>)),
           "translation_nl", JStr(nl)) : nl \in {"woord", "rede"} }

RichTokens ==
    { Token(x, g, e, p) : x \in TokenTexts, g \in GlossVals, e \in EntryVals,
                          p \in ParsingVals }
        \cup TranslatedTokens

\* One sentence holding one token, its text the text of the token.
TokenDocs ==
    { Document(JList(<<Sentence(Get(t, "token").s, JList(<<t>>))>>)) : t \in RichTokens }

\* The n-th token of a sentence: "logos" and "theos" in turn.
StreamToken(first, n) ==
    IF (n % 2 = 1) = (first = "logos")
    THEN Token("logos", JStr("word"), Absent, JDict(<<Item("case", JStr("nominative"))>>))
    ELSE Token("theos", JStr("god"), Absent, JDict(<<Item("case", JStr("accusative"))>>))

Stream(first, k) == JList([n \in 1..k |-> StreamToken(first, n)])

\* Sentences of up to MaxTokens tokens: a full one, the same without its last
\* token, one of other tokens, and one of another text without "analysis".
Sentences ==
    { Sentence("en arche", Stream("logos", MaxTokens)),
      Sentence("en arche", Stream("logos", MaxTokens - 1)),
      Sentence("en arche", Stream("theos", MaxTokens)),
      Sentence("kai theos", Absent) }

SeqsUpTo(S, n) == UNION { [1..k -> S] : k \in 0..n }

\* Documents of up to MaxSentences sentences, and one without "sentences".
StructDocs ==
    { Document(JList(ss)) : ss \in SeqsUpTo(Sentences, MaxSentences) }
      \cup { Document(Absent) }

\* What the files of the runs with failing files and disks hold.
FileContents ==
    { NoFile, BadJson,
      JsonFile(Document(Absent)),
      JsonFile(Document(JList(<<
          With(Sentence("en arche", Stream("logos", 1)),
               "translation_nl", JStr("in het begin"))>>))),
      JsonFile(Document(JList(<<
          With(Sentence("en arche", Stream("logos", 1)),
               "translation_nl", JStr("in den beginne"))>>))),
      JsonFile(Document(JList(<<Sentence("en arche", JList(<<
          Token("theos", JStr("god"), JStr("woord"),
                JDict(<<Item("number", JStr("singular")),
                        Item("case", JStr("accusative"))>>))>>))>>))),
      JsonFile(Document(JList(<<Sentence("en arche", JList(<<
          Token("theos", JStr("god"), JStr("woord"),
                JDict(<<Item("case", JStr("accusative")),
                        Item("number", JStr("singular"))>>))>>))>>))),
      JsonFile(Document(JList(<<Sentence("en arche", Stream("logos", 1)),
                                Sentence("kai theos", Absent)>>))) }

Disks == {"ok", "denied", "full"}

OldOutput == [exists |-> TRUE, text |-> "old report\n"]

Fresh ==
    /\ stdout = <<>>
    /\ runs = 0
    /\ mode = "none"
    /\ file1_path = ""
    /\ file2_path = ""
    /\ data1 = Unbound
    /\ data2 = Unbound
    /\ discrepancies = <<>>
    /\ status = "none"
    /\ prev = NoPrev

\* Two files of one sentence and one token each.
InitTok ==
    /\ fs \in [Paths -> {JsonFile(d) : d \in TokenDocs}]
    /\ disk = "ok"
    /\ out = NoOutput
    /\ Fresh
    /\ ScraperIdle
    /\ ParaphraserIdle

\* Two files of up to MaxSentences sentences of up to MaxTokens tokens.
InitDoc ==
    /\ fs \in [Paths -> {JsonFile(d) : d \in StructDocs}]
    /\ disk = "ok"
    /\ out = NoOutput
    /\ Fresh
    /\ ScraperIdle
    /\ ParaphraserIdle

\* Files that may be missing or undecodable, a disk that may fail, an output
\* file that may exist already.
Init ==
    /\ fs \in [Paths -> FileContents]
    /\ disk \in Disks
    /\ out \in {NoOutput, OldOutput}
    /\ Fresh
    /\ ScraperIdle
    /\ ParaphraserIdle

\* Two files that decode, a disk that works, no output file yet.
InitCompare == InitTok \/ InitDoc

\* One invocation of either script on a.json and b.json.
Once ==
    /\ runs = 0
    /\ \E order \in HashOrders :
           \/ CompareJsonFiles("a.json", "b.json", order)
           \/ CompareAnalyses("a.json", "b.json", order)

\* Up to MaxRuns invocations, one after the other, each a process of its own,
\* on the two files in either order.
Next ==
    /\ runs < MaxRuns
    /\ \E order \in HashOrders :
       \E p1 \in Paths :
       \E p2 \in Paths \ {p1} :
           \/ CompareJsonFiles(p1, p2, order)
           \/ CompareAnalyses(p1, p2, order)

SpecCompare == InitCompare /\ [][Once]_vars
Spec == Init /\ [][Next]_vars

---------------------------------------------------------------------------
(* Vocabulary of the properties                                            *)

Min(a, b) == IF a <= b THEN a ELSE b

\* The last invocation loaded both documents and compared them.
Compared == status \in {"written", "write_error"}

\* The tokens of a document, sentence after sentence.
RECURSIVE ConcatAnalyses(_)
ConcatAnalyses(sentences) ==
    IF sentences = <<>> THEN <<>>
    ELSE (IF "analysis" \in Keys(Head(sentences))
          THEN Get(Head(sentences), "analysis").xs ELSE <<>>)
         \o ConcatAnalyses(Tail(sentences))

SentenceList(d) == IF "sentences" \in Keys(d) THEN Get(d, "sentences").xs ELSE <<>>
TokenList(sentence) == ConcatAnalyses(<<sentence>>)
TokenSeq(d) == ConcatAnalyses(SentenceList(d))

\* The pairs of tokens the last invocation aligned, each with the place the
\* report gives it: (sentence, position) in Mode A, (0, overall position) in
\* Mode B.
AlignedPairs ==
    IF mode = "A"
    THEN UNION { { [sent |-> i, pos |-> j,
                    t1 |-> TokenList(SentenceList(data1)[i])[j],
                    t2 |-> TokenList(SentenceList(data2)[i])[j]] :
                   j \in 1..Min(Len(TokenList(SentenceList(data1)[i])),
                                Len(TokenList(SentenceList(data2)[i]))) } :
                 i \in 1..Min(Len(SentenceList(data1)), Len(SentenceList(data2))) }
    ELSE { [sent |-> 0, pos |-> n, t1 |-> TokenSeq(data1)[n], t2 |-> TokenSeq(data2)[n]] :
           n \in 1..Min(Len(TokenSeq(data1)), Len(TokenSeq(data2))) }

\* The lines of the report about one token place, in report order.
LinesAt(sent, pos) ==
    SelectSeq(discrepancies, LAMBDA l : l.sent = sent /\ l.pos = pos)

\* The lines of the report about one sentence number, in report order.
LinesOfSentence(sent) == SelectSeq(discrepancies, LAMBDA l : l.sent = sent)

\* Two tokens agree on every key outside K: the same keys, with equal values.
SameExcept(t1, t2, K) ==
    /\ Keys(t1) \ K = Keys(t2) \ K
    /\ \A k \in Keys(t1) \ K : PyEq(Get(t1, k), Get(t2, k))

\* Two tokens differ on key k, in value or in presence.
DiffersOn(t1, t2, k) ==
    \/ (k \in Keys(t1)) # (k \in Keys(t2))
    \/ PyNe(Get(t1, k), Get(t2, k))

ReportNoneB(p1, p2) ==
    "Resultaten van de vergelijking tussen:\n1: " \o p1 \o "\n2: " \o p2
        \o "\n====================================================\n"
        \o "\nGeen inhoudelijke discrepanties gevonden in de token-analyses."

ReportNoneA ==
    "Geen discrepanties gevonden tussen de opgegeven bestanden (met uitzondering van de genegeerde velden).\n"

---------------------------------------------------------------------------
(* The claims                                                              *)

\* C1: in both modes, comparing a document with a value-equal copy of itself
\* (the same sentences, tokens and nested parsing_details, whatever the
\* order of the keys) yields no discrepancy line, and the report written is
\* the fixed 'no discrepancies found' report of the mode.
C1_SelfComparison ==
    (Compared /\ PyEq(data1, data2)) =>
        /\ discrepancies = <<>>
        /\ status = "written"
        /\ out.text = IF mode = "A" THEN ReportNoneA
                      ELSE ReportNoneB(file1_path, file2_path)

\* A document with a token that has parsing_details was compared with a
\* value-equal copy whose keys are in another order.
C1_Witness ==
    /\ Compared
    /\ PyEq(data1, data2)
    /\ data1 # data2
    /\ \E n \in DOMAIN TokenSeq(data1) : IsDict(Get(TokenSeq(data1)[n], "parsing_details"))
    /\ discrepancies = <<>>

\* C2: in Mode B, two tokens at the same overall position that differ only
\* in the values or the presence of dictionary_entry_nl and gloss get no
\* header and no line in the report.
C2_IgnoreSetB ==
    (Compared /\ mode = "B") =>
        \A p \in AlignedPairs :
            SameExcept(p.t1, p.t2, {"dictionary_entry_nl", "gloss"})
                => LinesAt(0, p.pos) = <<>>

\* Mode B compared two tokens that differ in gloss and in dictionary_entry_nl
\* and in nothing else.
C2_Witness ==
    /\ Compared
    /\ mode = "B"
    /\ \E p \in AlignedPairs :
           /\ SameExcept(p.t1, p.t2, {"dictionary_entry_nl", "gloss"})
           /\ DiffersOn(p.t1, p.t2, "gloss")
           /\ DiffersOn(p.t1, p.t2, "dictionary_entry_nl")
           /\ LinesAt(0, p.pos) = <<>>

\* C3 as claimed: in Mode A, two aligned tokens that are identical except for
\* their gloss values get a discrepancy for gloss in the report.
C3_GlossReportedA ==
    (Compared /\ mode = "A") =>
        \A p \in AlignedPairs :
            (SameExcept(p.t1, p.t2, {"gloss"}) /\ PyNe(Get(p.t1, "gloss"), Get(p.t2, "gloss")))
                => \E n \in DOMAIN LinesAt(p.sent, p.pos) :
                       LinesAt(p.sent, p.pos)[n].key = "gloss"

\* C3 as amended: in Mode A, two aligned tokens that are identical except for
\* their gloss values get no discrepancy for gloss in the report: Mode A
\* excludes gloss as well as dictionary_entry_nl at token level.
C3_GlossIgnoredA ==
    (Compared /\ mode = "A") =>
        \A p \in AlignedPairs :
            (SameExcept(p.t1, p.t2, {"gloss"}) /\ PyNe(Get(p.t1, "gloss"), Get(p.t2, "gloss")))
                => \A n \in DOMAIN LinesAt(p.sent, p.pos) :
                       LinesAt(p.sent, p.pos)[n].key # "gloss"

\* Mode A compared two tokens that both have a gloss, of different values,
\* and are otherwise identical.
C3_Witness ==
    /\ Compared
    /\ mode = "A"
    /\ \E p \in AlignedPairs :
           /\ SameExcept(p.t1, p.t2, {"gloss"})
           /\ "gloss" \in Keys(p.t1) \cap Keys(p.t2)
           /\ PyNe(Get(p.t1, "gloss"), Get(p.t2, "gloss"))
           /\ \A n \in DOMAIN discrepancies : discrepancies[n].key # "gloss"

\* C4: in Mode A, as in Mode B, two aligned tokens that differ only in
\* dictionary_entry_nl and gloss get no token header and no line.
C4_IgnoreSetA ==
    (Compared /\ mode = "A") =>
        \A p \in AlignedPairs :
            SameExcept(p.t1, p.t2, {"dictionary_entry_nl", "gloss"})
                => LinesAt(p.sent, p.pos) = <<>>

\* Mode A compared two tokens that differ in gloss and in dictionary_entry_nl
\* and in nothing else.
C4_Witness ==
    /\ Compared
    /\ mode = "A"
    /\ \E p \in AlignedPairs :
           /\ SameExcept(p.t1, p.t2, {"dictionary_entry_nl", "gloss"})
           /\ DiffersOn(p.t1, p.t2, "gloss")
           /\ DiffersOn(p.t1, p.t2, "dictionary_entry_nl")
           /\ LinesAt(p.sent, p.pos) = <<>>

\* The lines of a report that name a sub-field of parsing_details.
DetailLinesOf(lines) ==
    SelectSeq(lines, LAMBDA l : \E k \in KeyNames : l.key = "parsing_details." \o k)

\* The sub-keys on which two parsing_details mappings differ, in
\* lexicographic order.
DifferingSubKeys(pd1, pd2) ==
    SelectSeq(Lexicographic,
              LAMBDA k : /\ k \in Keys(pd1) \cup Keys(pd2)
                         /\ PyNe(Get(pd1, k), Get(pd2, k)))

\* The three lines of text the report holds for each of these sub-keys.
RECURSIVE DetailTexts(_, _, _)
DetailTexts(ks, pd1, pd2) ==
    IF ks = <<>> THEN <<>>
    ELSE << "  - Verschil in 'parsing_details." \o Head(ks) \o "':",
            "      Bestand 1: " \o Fmt(Get(pd1, Head(ks))),
            "      Bestand 2: " \o Fmt(Get(pd2, Head(ks))) >>
         \o DetailTexts(Tail(ks), pd1, pd2)

\* Two aligned tokens both hold a mapping under parsing_details, and the two
\* mappings differ.
BothMappingsDiffer(p) ==
    /\ IsDict(Get(p.t1, "parsing_details"))
    /\ IsDict(Get(p.t2, "parsing_details"))
    /\ PyNe(Get(p.t1, "parsing_details"), Get(p.t2, "parsing_details"))

\* C5: in both modes, when two aligned tokens both hold a mapping under
\* parsing_details and the mappings differ, the report holds for this token
\* one entry 'parsing_details.<k>', with the two values, for exactly the
\* sub-keys k of either mapping whose values (None when absent) differ, in
\* lexicographic order of k, and no entry for parsing_details itself nor for
\* anything below a sub-key: a sub-value that is a mapping is compared and
\* shown whole.
C5_NestedDrillDown ==
    Compared =>
        \A p \in AlignedPairs :
            BothMappingsDiffer(p) =>
                /\ Texts(DetailLinesOf(LinesAt(p.sent, p.pos)))
                     = DetailTexts(DifferingSubKeys(Get(p.t1, "parsing_details"),
                                                    Get(p.t2, "parsing_details")),
                                   Get(p.t1, "parsing_details"),
                                   Get(p.t2, "parsing_details"))
                /\ \A n \in DOMAIN LinesAt(p.sent, p.pos) :
                       LinesAt(p.sent, p.pos)[n].key \in
                           ({""} \cup KeyNames \cup { "parsing_details." \o k : k \in KeyNames })
                               \ {"parsing_details"}

\* Two aligned tokens whose parsing_details mappings differ on two sub-keys,
\* one of them holding a mapping, were compared, and the report holds the two
\* entries.
C5_Witness ==
    /\ Compared
    /\ \E p \in AlignedPairs :
           /\ BothMappingsDiffer(p)
           /\ Len(DifferingSubKeys(Get(p.t1, "parsing_details"),
                                    Get(p.t2, "parsing_details"))) = 2
           /\ IsDict(Get(Get(p.t1, "parsing_details"), "case"))
           /\ Len(DetailLinesOf(LinesAt(p.sent, p.pos))) = 6

\* The notice for sentence number n missing from the given file.
MissingNotice(n, file) ==
    "Zin " \o ToString(n) \o " ontbreekt in bestand " \o ToString(file)
        \o ", maar bestaat wel in bestand " \o ToString(3 - file) \o "."

\* Document d1 is a proper prefix of d2: fewer sentences, each equal to the
\* sentence of d2 at its index.
ProperPrefix(d1, d2) ==
    /\ Len(SentenceList(d1)) < Len(SentenceList(d2))
    /\ \A n \in DOMAIN SentenceList(d1) : PyEq(SentenceList(d1)[n], SentenceList(d2)[n])

TitleA ==
    "Resultaten van de vergelijking tussen JSON-bestanden\n"
        \o "====================================================\n"

\* C6: in Mode A, every sentence number that one document has and the other
\* lacks gets exactly one line in the report, the notice naming the file that
\* lacks it, and no header, text or token line; when document 1 is a proper
\* prefix of document 2 the report is the title followed by these notices
\* and nothing else.
C6_MissingSentences ==
    (Compared /\ mode = "A") =>
        LET n1 == Len(SentenceList(data1))
            n2 == Len(SentenceList(data2))
            lacking == IF n1 < n2 THEN 1 ELSE 2
        IN  /\ \A n \in (Min(n1, n2) + 1)..Max(n1, n2) :
                   /\ Len(LinesOfSentence(n)) = 1
                   /\ LinesOfSentence(n)[1].kind = "sentence_missing"
                   /\ LinesOfSentence(n)[1].file = lacking
                   /\ LinesOfSentence(n)[1].text = MissingNotice(n, lacking)
            /\ ProperPrefix(data1, data2) =>
                   /\ Texts(discrepancies) = [n \in 1..(n2 - n1) |-> MissingNotice(n1 + n, 1)]
                   /\ status = "written" =>
                          out.text = TitleA \o Join("\n", Texts(discrepancies))

\* Mode A compared a document of at least one sentence with a longer one
\* that starts with the same sentences.
C6_Witness ==
    /\ Compared
    /\ mode = "A"
    /\ Len(SentenceList(data1)) >= 1
    /\ ProperPrefix(data1, data2)
    /\ Len(discrepancies) = Len(SentenceList(data2)) - Len(SentenceList(data1))

\* A document holding the given tokens in one sentence.
OneSentence(tokens) == Document(JList(<<Sentence("", JList(tokens))>>))

\* Two sequences of tokens are equal, token by token.
SameTokens(ts1, ts2) ==
    /\ Len(ts1) = Len(ts2)
    /\ \A n \in DOMAIN ts1 : PyEq(ts1[n], ts2[n])

\* C7: the discrepancies of Mode B depend only on the two concatenations of
\* the analysis lists: they are those of the two documents that hold the
\* same tokens in a single sentence; and two documents whose concatenations
\* are equal get no discrepancy, whatever their sentences and sentence texts.
C7_FlattenedEquivalence ==
    (Compared /\ mode = "B") =>
        /\ discrepancies = DiscrepanciesB(OneSentence(TokenSeq(data1)),
                                          OneSentence(TokenSeq(data2)), Lexicographic)
        /\ SameTokens(TokenSeq(data1), TokenSeq(data2)) => discrepancies = <<>>

\* Mode B compared two documents of the same tokens, cut into sentences
\* differently and with different sentence texts.
C7_Witness ==
    /\ Compared
    /\ mode = "B"
    /\ TokenSeq(data1) # <<>>
    /\ SameTokens(TokenSeq(data1), TokenSeq(data2))
    /\ Len(SentenceList(data1)) = Len(SentenceList(data2))
    /\ \E n \in DOMAIN SentenceList(data1) :
           /\ TokenList(SentenceList(data1)[n]) # TokenList(SentenceList(data2)[n])
           /\ PyNe(Get(SentenceList(data1)[n], "sentence_text"),
                   Get(SentenceList(data2)[n], "sentence_text"))
    /\ discrepancies = <<>>

\* C8: an invocation of the same script on the same two files as the
\* invocation before it (the files are never written) writes the same
\* report, character for character, whatever the order in which either
\* process iterates its sets.
C8_Determinism ==
    ( /\ status = "written"
      /\ prev.status = "written"
      /\ prev.mode = mode
      /\ prev.file1_path = file1_path
      /\ prev.file2_path = file2_path )
        => out.text = prev.out.text

\* The same script ran twice on the same files, whose tokens differ on
\* several fields and sub-fields.
C8_Witness ==
    /\ status = "written"
    /\ prev.status = "written"
    /\ prev.mode = mode
    /\ prev.file1_path = file1_path
    /\ prev.file2_path = file2_path
    /\ Len(SelectSeq(discrepancies, LAMBDA l : l.kind = "field")) >= 3
    /\ out.text = prev.out.text

\* A decoded document has no "sentences" key.
NoSentencesKey(d) == d.t = "dict" /\ "sentences" \notin Keys(d)

\* An invocation ran on two files that decode, one of them at least to a
\* document without "sentences".
RanWithoutSentences ==
    /\ status # "none"
    /\ fs[file1_path].kind = "json"
    /\ fs[file2_path].kind = "json"
    /\ NoSentencesKey(fs[file1_path].data) \/ NoSentencesKey(fs[file2_path].data)

\* What a line is about.
About(l) == <<l.kind, l.sent, l.pos, l.file>>

\* C9: a document without "sentences" is compared as a document of zero
\* sentences: the invocation ends normally and writes a report, in which
\* Mode A gives every sentence of the other document as missing from it and
\* Mode B gives every token of the other document as extra.
C9_MissingKeyIsEmpty ==
    RanWithoutSentences =>
        /\ status = "written"
        /\ out.exists
        /\ stdout = <<Completed>>
        /\ (mode = "A" /\ NoSentencesKey(data1)) =>
               [n \in DOMAIN discrepancies |-> About(discrepancies[n])]
                 = [n \in 1..Len(SentenceList(data2)) |-> <<"sentence_missing", n, 0, 1>>]
        /\ (mode = "A" /\ NoSentencesKey(data2)) =>
               [n \in DOMAIN discrepancies |-> About(discrepancies[n])]
                 = [n \in 1..Len(SentenceList(data1)) |-> <<"sentence_missing", n, 0, 2>>]
        /\ (mode = "B" /\ NoSentencesKey(data1)) =>
               [n \in DOMAIN discrepancies |-> About(discrepancies[n])]
                 = [n \in 1..(2 * Len(TokenSeq(data2))) |->
                       <<IF n % 2 = 1 THEN "extra_header" ELSE "extra_token",
                         0, (n + 1) \div 2, 2>>]
        /\ (mode = "B" /\ NoSentencesKey(data2)) =>
               [n \in DOMAIN discrepancies |-> About(discrepancies[n])]
                 = [n \in 1..(2 * Len(TokenSeq(data1))) |->
                       <<IF n % 2 = 1 THEN "extra_header" ELSE "extra_token",
                         0, (n + 1) \div 2, 1>>]

\* Mode A compared a document without "sentences" with one of two sentences.
C9_Witness ==
    /\ RanWithoutSentences
    /\ mode = "A"
    /\ NoSentencesKey(data1)
    /\ Len(SentenceList(data2)) = 2
    /\ Len(discrepancies) = 2
    /\ out.exists

\* C10 as claimed: a document without "sentences" is a fatal error: the
\* failure is reported, nothing is compared and no report is written.
C10_MissingKeyFatal ==
    RanWithoutSentences =>
        /\ status = "load_error"
        /\ discrepancies = <<>>
        /\ ~out.exists

\* The document read as the scripts read it when "sentences" is missing.
WithSentences(d) == IF NoSentencesKey(d) THEN Document(JList(<<>>)) ELSE d

\* C10 as amended: a document without "sentences" is not an error: no failure
\* is reported, the comparison is made, and the report written is the report
\* for the same document with an empty "sentences" list.
C10_MissingKeyLenient ==
    RanWithoutSentences =>
        /\ status = "written"
        /\ stdout = <<Completed>>
        /\ out.exists
        /\ out.text =
              IF mode = "A"
              THEN Join("", WritesA(DiscrepanciesA(WithSentences(data1),
                                                   WithSentences(data2), Lexicographic)))
              ELSE Join("", WritesB(file1_path, file2_path,
                                    DiscrepanciesB(WithSentences(data1),
                                                   WithSentences(data2), Lexicographic)))

\* Mode B compared a document without "sentences" with one that has tokens,
\* and wrote a report of extra tokens.
C10_Witness ==
    /\ RanWithoutSentences
    /\ mode = "B"
    /\ NoSentencesKey(data2)
    /\ status = "written"
    /\ \E n \in DOMAIN discrepancies : discrepancies[n].kind = "extra_token"

\* An invocation ran on files of which one at least is missing or does not
\* decode.
RanOnBadInput ==
    /\ status # "none"
    /\ fs[file1_path].kind # "json" \/ fs[file2_path].kind # "json"

\* The messages of the two except clauses of the load.
LoadErrors ==
    { "Fout: Bestand niet gevonden - " \o p : p \in Paths }
        \cup { "Fout: Ongeldig JSON-formaat in een van de bestanden. Details: <e>" }

\* C11: in both modes, when either input file is missing or does not decode,
\* the invocation prints the error of the first file that fails and nothing
\* else, compares nothing, and leaves the output file as it was before the
\* invocation: not created when there was none, unchanged when there was
\* one; also when file 1 loaded and file 2 fails.
C11_LoadErrorsFatal ==
    RanOnBadInput =>
        /\ status = "load_error"
        /\ Len(stdout) = 1
        /\ stdout[1] \in LoadErrors
        /\ stdout[1] =
              (IF fs[file1_path].kind = "missing"
                   THEN "Fout: Bestand niet gevonden - " \o file1_path
               ELSE IF fs[file1_path].kind = "invalid"
                   THEN "Fout: Ongeldig JSON-formaat in een van de bestanden. Details: <e>"
               ELSE IF fs[file2_path].kind = "missing"
                   THEN "Fout: Bestand niet gevonden - " \o file2_path
               ELSE "Fout: Ongeldig JSON-formaat in een van de bestanden. Details: <e>")
        /\ discrepancies = <<>>
        /\ data2 = Unbound
        /\ out = prev.out

\* File 1 loaded, file 2 did not decode, and the report of an earlier run is
\* still in the output file.
C11_Witness ==
    /\ RanOnBadInput
    /\ fs[file1_path].kind = "json"
    /\ fs[file2_path].kind = "invalid"
    /\ status = "load_error"
    /\ disk = "ok"
    /\ prev.out = OldOutput
    /\ out = OldOutput

\* The report the last invocation set out to write.
FullReport ==
    IF mode = "A" THEN Join("", WritesA(discrepancies))
    ELSE Join("", WritesB(file1_path, file2_path, discrepancies))

\* C12: when the writing of the report fails, the failure is printed and the
\* output file holds either the whole report or what it held before the
\* invocation, never a part of the report.
C12_WriteAllOrNothing ==
    status = "write_error" =>
        /\ stdout = <<CannotWrite>>
        /\ \/ out = prev.out
           \/ out = [exists |-> TRUE, text |-> FullReport]

\* Two invocations of the same script, one after the other, both wrote
\* their report, on pairs of documents that are equal in value.
TwoRunsOnEqualDocuments ==
    /\ status = "written"
    /\ prev.status = "written"
    /\ prev.mode = mode
    /\ PyEq(prev.data1, data1)
    /\ PyEq(prev.data2, data2)

TranslationKeys == {"translation_nl", "translation_en", "translation_fr"}

\* A decoded value without the translation keys of its mappings, at every
\* depth.
RECURSIVE WithoutTranslations(_)
WithoutTranslations(v) ==
    CASE v.t = "dict" ->
            LET kept == SelectSeq(v.items, LAMBDA it : it.k \notin TranslationKeys)
            IN  JDict([n \in DOMAIN kept |->
                          Item(kept[n].k, WithoutTranslations(kept[n].v))])
      [] v.t = "list" -> JList([n \in DOMAIN v.xs |-> WithoutTranslations(v.xs[n])])
      [] OTHER -> v

\* The two documents compared differ, and only in translation keys.
DifferOnlyInTranslations ==
    /\ Compared
    /\ PyNe(data1, data2)
    /\ PyEq(WithoutTranslations(data1), WithoutTranslations(data2))

\* C14: in both modes, two documents that differ only in translation_nl,
\* translation_en or translation_fr, on a sentence or on a token, yield no
\* discrepancy line and the 'no discrepancies found' report.
C14_TranslationsIgnored ==
    DifferOnlyInTranslations =>
        /\ discrepancies = <<>>
        /\ status = "written" =>
               out.text = IF mode = "A" THEN ReportNoneA
                          ELSE ReportNoneB(file1_path, file2_path)

\* The fields the token comparison leaves out.
IgnoredOnTokens == {"dictionary_entry_nl", "gloss"}

\* The fields on which two tokens are compared and found unequal, a field a
\* token lacks being read as None.
DifferingFields(t1, t2) ==
    { k \in (Keys(t1) \cup Keys(t2)) \ IgnoredOnTokens : PyNe(Get(t1, k), Get(t2, k)) }

\* Two sentences differ in what Mode A compares: their sentence_text, the
\* number of their tokens, or a field of two tokens at the same position.
SentencesDiffer(s1, s2) ==
    \/ PyNe(Get(s1, "sentence_text"), Get(s2, "sentence_text"))
    \/ Len(TokenList(s1)) # Len(TokenList(s2))
    \/ \E j \in 1..Min(Len(TokenList(s1)), Len(TokenList(s2))) :
           DifferingFields(TokenList(s1)[j], TokenList(s2)[j]) # {}

\* The header of sentence number n.
SentenceHeader(n) == "\n" \o Equals20 \o " ZIN " \o ToString(n) \o " " \o Equals20

\* The places of the report that hold a line of sentence number n.
PlacesOfSentence(n) == { m \in DOMAIN discrepancies : discrepancies[m].sent = n }

\* C15: in Mode A, for every sentence number both documents have, the report
\* holds the header of the sentence exactly when the two sentences differ
\* in sentence_text or in a token; it holds it once, before every other line
\* of the sentence, the lines of the sentence following it without a line of
\* another sentence in between; a sentence without difference has no line.
C15_SentenceHeaders ==
    (Compared /\ mode = "A") =>
        \A n \in 1..Min(Len(SentenceList(data1)), Len(SentenceList(data2))) :
            LET lines == LinesOfSentence(n)
                headers == SelectSeq(lines, LAMBDA l : l.kind = "sentence_header")
            IN  IF SentencesDiffer(SentenceList(data1)[n], SentenceList(data2)[n])
                THEN /\ Len(lines) >= 2
                     /\ lines[1].kind = "sentence_header"
                     /\ lines[1].text = SentenceHeader(n)
                     /\ Len(headers) = 1
                     /\ \A a, b \in PlacesOfSentence(n) :
                            \A m \in a..b : m \in PlacesOfSentence(n)
                ELSE lines = <<>>

\* Mode A compared two documents of two sentences, the first pair without
\* difference and the second with one: the report starts with the header
\* of sentence 2.
C15_Witness ==
    /\ Compared
    /\ mode = "A"
    /\ Len(SentenceList(data1)) = 2
    /\ Len(SentenceList(data2)) = 2
    /\ ~SentencesDiffer(SentenceList(data1)[1], SentenceList(data2)[1])
    /\ SentencesDiffer(SentenceList(data1)[2], SentenceList(data2)[2])
    /\ discrepancies # <<>>
    /\ discrepancies[1].text = SentenceHeader(2)

\* C16: the report Mode A writes is the fixed 'no discrepancies found'
\* sentence exactly when the scan gave no discrepancy line; when it gave
\* one or more, the report is the title followed by the lines, none of which
\* is the fixed sentence, and it is not empty.
C16_NoDiscrepanciesSentence ==
    (status = "written" /\ mode = "A") =>
        /\ (out.text = ReportNoneA) <=> (discrepancies = <<>>)
        /\ discrepancies # <<>> =>
               /\ out.text = TitleA \o Join("\n", Texts(discrepancies))
               /\ out.text # ""
               /\ \A n \in DOMAIN discrepancies :
                      /\ discrepancies[n].text # ReportNoneA
                      /\ discrepancies[n].text \o "\n" # ReportNoneA

\* Mode A wrote a report of several discrepancy lines.
C16_Witness ==
    /\ status = "written"
    /\ mode = "A"
    /\ Len(discrepancies) >= 4
    /\ out.text = TitleA \o Join("\n", Texts(discrepancies))
    /\ out.text # ReportNoneA

\* The line for the token at position j that the given file lacks.
MissingTokenLine(token, j, file) ==
    "  - Token '" \o Fmt(Get(token, "token")) \o "' (pos " \o ToString(j)
        \o ") ontbreekt in bestand " \o ToString(file) \o "."

\* C17: in Mode A, in a sentence both documents have, every token position
\* that only one side has gets exactly one line in the report: it gives
\* the `token` value of the token and its position and names the file that
\* lacks it; no field of the token is compared.
C17_MissingToken ==
    (Compared /\ mode = "A") =>
        \A n \in 1..Min(Len(SentenceList(data1)), Len(SentenceList(data2))) :
            LET ts1 == TokenList(SentenceList(data1)[n])
                ts2 == TokenList(SentenceList(data2)[n])
                lacking == IF Len(ts1) < Len(ts2) THEN 1 ELSE 2
                longer == IF Len(ts1) < Len(ts2) THEN ts2 ELSE ts1
            IN  \A j \in (Min(Len(ts1), Len(ts2)) + 1)..Max(Len(ts1), Len(ts2)) :
                    /\ Len(LinesAt(n, j)) = 1
                    /\ LinesAt(n, j)[1].kind = "token_missing"
                    /\ LinesAt(n, j)[1].file = lacking
                    /\ LinesAt(n, j)[1].text = MissingTokenLine(longer[j], j, lacking)

\* Mode A compared two sentences with the same text of which the second
\* has a token less, and the report names the token missing from file 2.
C17_Witness ==
    /\ Compared
    /\ mode = "A"
    /\ \E n \in 1..Min(Len(SentenceList(data1)), Len(SentenceList(data2))) :
           /\ Len(TokenList(SentenceList(data1)[n])) > Len(TokenList(SentenceList(data2)[n]))
           /\ PyEq(Get(SentenceList(data1)[n], "sentence_text"),
                   Get(SentenceList(data2)[n], "sentence_text"))
           /\ Len(LinesOfSentence(n)) = 2
           /\ LinesOfSentence(n)[2].kind = "token_missing"
           /\ LinesOfSentence(n)[2].file = 2

\* The two lines of the entry for the extra token at overall position pos
\* of the given file.
ExtraEntry(token, pos, file) ==
    << "\n--- Extra token in Bestand " \o ToString(file) \o " op algehele positie "
           \o ToString(pos) \o " ---",
       "  Token: '" \o Fmt(Get(token, "token")) \o "'" >>

\* The lines of the report that belong to entries for extra tokens.
ExtraLines ==
    SelectSeq(discrepancies, LAMBDA l : l.kind \in {"extra_header", "extra_token"})

\* C18: in Mode B, with n1 and n2 tokens in the two flattened sequences, the
\* report holds exactly |n1 - n2| entries for extra tokens: one for each
\* overall position from min(n1, n2) + 1 to max(n1, n2), in increasing
\* order, each naming the file that has the token and the token's `token`
\* value; these positions have no other line.
C18_ExtraTokens ==
    (Compared /\ mode = "B") =>
        LET n1 == Len(TokenSeq(data1))
            n2 == Len(TokenSeq(data2))
            lo == Min(n1, n2)
            file == IF n1 > n2 THEN 1 ELSE 2
            longer == IF n1 > n2 THEN TokenSeq(data1) ELSE TokenSeq(data2)
        IN  /\ Len(ExtraLines) = 2 * (Max(n1, n2) - lo)
            /\ \A k \in 1..(Max(n1, n2) - lo) :
                   /\ <<ExtraLines[2*k - 1].text, ExtraLines[2*k].text>>
                        = ExtraEntry(longer[lo + k], lo + k, file)
                   /\ LinesAt(0, lo + k) = SubSeq(ExtraLines, 2*k - 1, 2*k)

\* Mode B compared a document of one token with one of two, across two
\* sentences, and the report ends with the entry for the extra token of
\* file 2 at overall position 2.
C18_Witness ==
    /\ Compared
    /\ mode = "B"
    /\ Len(TokenSeq(data1)) = 1
    /\ Len(TokenSeq(data2)) = 2
    /\ Len(ExtraLines) = 2
    /\ ExtraLines[1].pos = 2
    /\ ExtraLines[1].file = 2
    /\ discrepancies[Len(discrepancies)] = ExtraLines[2]

\* How the header of two aligned tokens names them.
HeaderRef(t1, t2) ==
    IF PyEq(Get(t1, "token"), Get(t2, "token"))
    THEN Fmt(Get(t1, "token"))
    ELSE Fmt(Get(t1, "token")) \o "/" \o Fmt(Get(t2, "token"))

\* The header of two aligned tokens in the report of the last invocation.
TokenHeader(p) ==
    IF mode = "A"
    THEN "\nDiscrepanties voor token '" \o HeaderRef(p.t1, p.t2) \o "' (positie "
             \o ToString(p.pos) \o "):"
    ELSE "\n--- Discrepantie voor token '" \o HeaderRef(p.t1, p.t2)
             \o "' op algehele positie " \o ToString(p.pos) \o " ---"

\* C19: in both modes, two aligned tokens that differ on one or more fields
\* outside the ignore-set get exactly one header in the report, before every
\* other line of the token; it shows the `token` value of side 1 when the
\* two `token` values are equal and side1/side2 when they differ; two
\* aligned tokens that differ on no such field get no line.
C19_TokenHeader ==
    Compared =>
        \A p \in AlignedPairs :
            LET lines == LinesAt(p.sent, p.pos)
            IN  IF DifferingFields(p.t1, p.t2) # {}
                THEN /\ lines # <<>>
                     /\ lines[1].kind = "token_header"
                     /\ lines[1].text = TokenHeader(p)
                     /\ Len(SelectSeq(lines, LAMBDA l : l.kind = "token_header")) = 1
                ELSE lines = <<>>

\* Mode B compared two tokens that differ in `token` and in parsing_details:
\* one header naming both, then the lines of the two fields.
C19_Witness ==
    /\ Compared
    /\ mode = "B"
    /\ \E p \in AlignedPairs :
           /\ {"token", "parsing_details"} \subseteq DifferingFields(p.t1, p.t2)
           /\ LinesAt(p.sent, p.pos)[1].text
                = "\n--- Discrepantie voor token 'logos/theos' op algehele positie 1 ---"
           /\ Len(SelectSeq(LinesAt(p.sent, p.pos), LAMBDA l : l.kind = "field")) >= 2

\* Where a field name stands in the order of the report: a field by its
\* name, a sub-field of parsing_details at the place of parsing_details and
\* there by its own name.
FieldPlace(key) ==
    IF key \in KeyNames THEN <<Rank(key), 0>>
    ELSE <<Rank("parsing_details"),
           Rank(CHOOSE k \in KeyNames : key = "parsing_details." \o k)>>

PlaceLt(a, b) == a[1] < b[1] \/ (a[1] = b[1] /\ a[2] < b[2])

\* C20: the lines of a report are in order: the sentence numbers never
\* decrease along the report (Mode A), within a sentence, or along the whole
\* report in Mode B, the token positions never decrease, and within one
\* token the field names strictly increase in lexicographic order, the
\* sub-fields of parsing_details among themselves as well.
C20_ReportOrder ==
    Compared =>
        \A a, b \in DOMAIN discrepancies :
            a < b =>
                LET la == discrepancies[a]
                    lb == discrepancies[b]
                IN  /\ la.sent <= lb.sent
                    /\ la.sent = lb.sent => la.pos <= lb.pos
                    /\ (la.sent = lb.sent /\ la.pos = lb.pos
                            /\ la.kind = "field" /\ lb.kind = "field")
                           => PlaceLt(FieldPlace(la.key), FieldPlace(lb.key))

\* Mode A reported for one token a sub-field of parsing_details and, after
\* it, the field `token`.
C20_Witness ==
    /\ Compared
    /\ mode = "A"
    /\ \E a, b \in DOMAIN discrepancies :
           /\ discrepancies[a].kind = "field"
           /\ discrepancies[a].key = "parsing_details.number"
           /\ discrepancies[b].kind = "field"
           /\ discrepancies[b].key = "token"
           /\ a < b
           /\ discrepancies[a].pos = discrepancies[b].pos

\* What a line of either mode reports, apart from sentence and wording: a
\* position only one file has a token at (with the file that has it), a
\* position whose tokens differ, a field that differs there, and each of
\* its two values as the report shows it.
ItemOf(l) ==
    CASE l.kind = "token_missing" -> <<"only", l.pos, 3 - l.file>>
      [] l.kind = "extra_header"  -> <<"only", l.pos, l.file>>
      [] l.kind = "token_header"  -> <<"differs", l.pos>>
      [] l.kind = "field"         -> <<"field", l.pos, l.key>>
      [] l.kind = "value"         -> <<"value", l.pos, l.key, l.file, l.text>>
      [] OTHER                    -> <<"none">>

ItemsOf(lines) == { ItemOf(lines[n]) : n \in DOMAIN lines } \ { <<"none">> }

\* Both documents are one sentence, with equal sentence_text.
OneSentenceEach ==
    /\ Len(SentenceList(data1)) = 1
    /\ Len(SentenceList(data2)) = 1
    /\ PyEq(Get(SentenceList(data1)[1], "sentence_text"),
            Get(SentenceList(data2)[1], "sentence_text"))

\* C21: for two documents of one sentence each, with equal sentence_text,
\* Mode A and Mode B report the same items: the same positions that only one
\* file has a token at, and for each position both have, the same fields
\* and sub-fields of parsing_details with the same two values.
C21_ModesAgree ==
    (Compared /\ OneSentenceEach) =>
        /\ mode = "A" =>
               ItemsOf(discrepancies)
                 = ItemsOf(DiscrepanciesB(data1, data2, Lexicographic))
        /\ mode = "B" =>
               ItemsOf(discrepancies)
                 = ItemsOf(DiscrepanciesA(data1, data2, Lexicographic))

\* Mode B compared two documents of one sentence whose tokens differ in a
\* sub-field of parsing_details, and reports what Mode A reports.
C21_Witness ==
    /\ Compared
    /\ OneSentenceEach
    /\ mode = "B"
    /\ \E n \in DOMAIN discrepancies :
           discrepancies[n].kind = "field" /\ discrepancies[n].key = "parsing_details.case"
    /\ ItemsOf(discrepancies) = ItemsOf(DiscrepanciesA(data1, data2, Lexicographic))

DocumentsAgree(d1, d2) ==
    /\ Len(SentenceList(d1)) = Len(SentenceList(d2))
    /\ \A n \in DOMAIN SentenceList(d1) :
           ~SentencesDiffer(SentenceList(d1)[n], SentenceList(d2)[n])

\* The tokens of two sentences differ, in number or in a field.
TokensDiffer(s1, s2) ==
    \/ Len(TokenList(s1)) # Len(TokenList(s2))
    \/ \E j \in 1..Min(Len(TokenList(s1)), Len(TokenList(s2))) :
           DifferingFields(TokenList(s1)[j], TokenList(s2)[j]) # {}

AbsentAndNull(m1, m2, k) ==
    \/ k \notin Keys(m1) /\ k \in Keys(m2) /\ Get(m2, k) = JNull
    \/ k \notin Keys(m2) /\ k \in Keys(m1) /\ Get(m1, k) = JNull

\* Key k is absent from one of the two mappings and not null in the other.
AbsentAndValue(m1, m2, k) ==
    \/ k \notin Keys(m1) /\ k \in Keys(m2) /\ Get(m2, k) # JNull
    \/ k \notin Keys(m2) /\ k \in Keys(m1) /\ Get(m1, k) # JNull

\* The report has an entry of the given name for the tokens at a place.
HasEntry(p, name) ==
    \E n \in DOMAIN LinesAt(p.sent, p.pos) :
        LinesAt(p.sent, p.pos)[n].kind = "field" /\ LinesAt(p.sent, p.pos)[n].key = name

\* The report shows None as the value of the given entry in the given file.
ShowsNone(p, name, file) ==
    \E n \in DOMAIN LinesAt(p.sent, p.pos) :
        /\ LinesAt(p.sent, p.pos)[n].kind = "value"
        /\ LinesAt(p.sent, p.pos)[n].key = name
        /\ LinesAt(p.sent, p.pos)[n].text = "      Bestand " \o ToString(file) \o ": None"

\* C24: in both modes, a field outside the ignore-set that one of two
\* aligned tokens lacks and the other holds as null has no entry in the
\* report, and has one, showing None for the token that lacks it, when the
\* other holds another value than null; the same for the sub-fields of
\* parsing_details when both tokens hold a mapping there.
C24_AbsentIsNull ==
    Compared =>
        \A p \in AlignedPairs :
            LET pd1 == Get(p.t1, "parsing_details")
                pd2 == Get(p.t2, "parsing_details")
            IN  /\ \A k \in KeyNames \ IgnoredOnTokens :
                       /\ AbsentAndNull(p.t1, p.t2, k) => ~HasEntry(p, k)
                       /\ AbsentAndValue(p.t1, p.t2, k) =>
                              /\ HasEntry(p, k)
                              /\ ShowsNone(p, k, IF k \in Keys(p.t1) THEN 2 ELSE 1)
                /\ (IsDict(pd1) /\ IsDict(pd2)) =>
                       \A k \in KeyNames :
                           /\ AbsentAndNull(pd1, pd2, k)
                                  => ~HasEntry(p, "parsing_details." \o k)
                           /\ AbsentAndValue(pd1, pd2, k) =>
                                  /\ HasEntry(p, "parsing_details." \o k)
                                  /\ ShowsNone(p, "parsing_details." \o k,
                                               IF k \in Keys(pd1) THEN 2 ELSE 1)

\* Two aligned tokens were compared that are equal but for parsing_details,
\* which one lacks and the other holds as null: the report has no line.
C24_Witness ==
    /\ Compared
    /\ \E p \in AlignedPairs :
           /\ AbsentAndNull(p.t1, p.t2, "parsing_details")
           /\ SameExcept(p.t1, p.t2, {"parsing_details"})
    /\ discrepancies = <<>>
    /\ out.text \in {ReportNoneA, ReportNoneB(file1_path, file2_path)}


(***************************************************************************)
(* The batch scraper: obtain_dictionary/00__batch_scraper_wrapper.py.      *)
(* One BatchScraperManager per process; the output directory (the batch    *)
(* files and progress.json) is what one process leaves to the next.  A     *)
(* batch range [start, end] is the pair <<start, end>>.  The error log and *)
(* the statistics (total_scraped, start_time) only feed log lines and are  *)
(* left out.                                                               *)
(***************************************************************************)

\* self.total_lemmas (43627 in the source), scaled down.
total_lemmas == 3

\* Number of processes of the batch scraper in one behaviour.
MaxScraperRuns == 3

\* The command line: --batch-size, --max-errors, --max-consecutive-errors,
\* --start-from (None when not given) and --no-resume.
BatchSizes == {1, 2}
ErrorLimits == {<<2, 1>>, <<2, 2>>}
None == [given |-> FALSE]
StartFroms == {None} \cup {[given |-> TRUE, value |-> n] : n \in {0, 1}}

\* f"{n:04d}" as its digits, and int() of such digits.
Format04d(n) == <<(n \div 1000) % 10, (n \div 100) % 10, (n \div 10) % 10, n % 10>>

RECURSIVE ParseInt(_)
ParseInt(digits) ==
    IF digits = <<>> THEN 0
    ELSE ParseInt(SubSeq(digits, 1, Len(digits) - 1)) * 10 + digits[Len(digits)]

\* batch_{start_id:04d}_{end_id:04d}.json, as the parts of its stem.
batch_filename(start_id, end_id) == <<"batch", Format04d(start_id), Format04d(end_id)>>

\* list order of Python on [start, end] pairs.
RangeLt(a, b) == a[1] < b[1] \/ (a[1] = b[1] /\ a[2] < b[2])

RECURSIVE InsertRange(_, _)
InsertRange(r, sorted) ==
    IF sorted = <<>> THEN <<r>>
    ELSE IF RangeLt(r, Head(sorted)) THEN <<r>> \o sorted
    ELSE <<Head(sorted)>> \o InsertRange(r, Tail(sorted))

\* list.sort() on a list of ranges.
RECURSIVE SortRanges(_)
SortRanges(ranges) ==
    IF ranges = <<>> THEN <<>>
    ELSE LET rest == SortRanges(SubSeq(ranges, 1, Len(ranges) - 1))
         IN  InsertRange(ranges[Len(ranges)], rest)

InRanges(r, ranges) == \E i \in 1 .. Len(ranges) : ranges[i] = r

\* The ranges of a set, one after the other (the order is settled by the
\* sort that follows every use).
RECURSIVE RangesOfSet(_)
RangesOfSet(S) ==
    IF S = {} THEN <<>>
    ELSE LET r == CHOOSE x \in S : \A y \in S : x = y \/ RangeLt(x, y)
         IN  <<r>> \o RangesOfSet(S \ {r})

\* A scan that takes every range as the next link, whatever its start.
RECURSIVE NextUncompletedAnyStart(_, _)
NextUncompletedAnyStart(ranges, next_start) ==
    IF ranges = <<>> THEN next_start
    ELSE NextUncompletedAnyStart(Tail(ranges), Head(ranges)[2] + 1)

\* The scan of load_progress over the sorted ranges: follow the ranges while
\* each starts at next_start, stop at the first that does not.
RECURSIVE NextUncompleted(_, _)
NextUncompleted(ranges, next_start) ==
    IF ranges = <<>> THEN next_start
    ELSE IF Head(ranges)[1] = next_start
         THEN NextUncompleted(Tail(ranges), Head(ranges)[2] + 1)
         ELSE next_start

\* load_progress: the ranges of progress.json (when it can be read) and of
\* the batch files not yet among them, sorted, become completed_batches; the
\* failed batches come from progress.json; total_errors is not read back.
load_progress(dir, failed_batches) ==
    LET readable == dir.progress.exists /\ dir.progress.valid
        listed == IF readable THEN dir.progress.completed_ranges ELSE <<>>
        from_files == {<<ParseInt(f[2]), ParseInt(f[3])>> : f \in dir.batch_files}
        added == RangesOfSet({r \in from_files : ~InRanges(r, listed)})
        completed_ranges == SortRanges(listed \o added)
    IN  [next_start        |-> NextUncompleted(completed_ranges, 0),
         completed_ranges  |-> completed_ranges,
         failed_batches    |-> IF readable THEN dir.progress.failed_batches
                               ELSE failed_batches]

\* save_progress: progress.json is rewritten; a write that fails is logged
\* and leaves a file that cannot be decoded.
SaveOutcomes == {"saved", "failed"}

save_progress(m, dir, outcome) ==
    [dir EXCEPT !.progress =
        IF outcome = "saved"
        THEN [exists |-> TRUE, valid |-> TRUE,
              completed_ranges |-> m.completed_batches,
              failed_batches |-> m.failed_batches,
              total_errors |-> m.total_errors]
        ELSE [exists |-> TRUE, valid |-> FALSE]]

\* _handle_error.
handle_error(m, start_id, end_id) ==
    [m EXCEPT !.total_errors = @ + 1,
              !.consecutive_errors = @ + 1,
              !.failed_batches = Append(@, <<start_id, end_id>>)]

\* should_stop without the test on the consecutive errors.
should_stop_total_only(m) ==
    m.total_errors >= m.max_errors

\* should_stop.
should_stop(m) ==
    \/ m.total_errors >= m.max_errors
    \/ m.consecutive_errors >= m.max_consecutive_errors

\* What one call of scrape_batch can meet: lemmas retrieved and the batch
\* file written; no lemmas or a driver error; lemmas retrieved and recorded,
\* then the driver fails on quit() when the with block is left.
ScrapeOutcomes == {"lemmas", "error", "quit_error"}

\* scrape_batch that leaves consecutive_errors alone on success.
scrape_batch_without_reset(m, start_id, end_id, outcome) ==
    LET recorded == [m EXCEPT !.completed_batches = Append(@, <<start_id, end_id>>)]
    IN  CASE outcome = "lemmas" -> recorded
          [] outcome = "quit_error" -> handle_error(recorded, start_id, end_id)
          [] OTHER -> handle_error(m, start_id, end_id)

\* The statements of scrape_batch on the manager.
scrape_batch(m, start_id, end_id, outcome) ==
    LET recorded == [m EXCEPT !.completed_batches = Append(@, <<start_id, end_id>>),
                              !.consecutive_errors = 0]
    IN  CASE outcome = "lemmas" -> recorded
          [] outcome = "quit_error" -> handle_error(recorded, start_id, end_id)
          [] OTHER -> handle_error(m, start_id, end_id)

\* The return value of scrape_batch.
scrape_succeeded(outcome) == outcome = "lemmas"

\* The batch files after scrape_batch.
scrape_files(dir, start_id, end_id, outcome) ==
    IF outcome \in {"lemmas", "quit_error"}
    THEN [dir EXCEPT !.batch_files = @ \cup {batch_filename(start_id, end_id)}]
    ELSE dir

\* __init__ and the head of run: the manager when the loop is entered.
\* attempted, at_start and last record the calls of scrape_batch of this
\* process; they are read by no statement of the program.
NewManager(batch_size, limits, start_from, resume, dir) ==
    LET loads == resume /\ start_from = None
        loaded == load_progress(dir, <<>>)
    IN  [pc |-> "running",
         batch_size |-> batch_size,
         max_errors |-> limits[1],
         max_consecutive_errors |-> limits[2],
         total_errors |-> 0,
         consecutive_errors |-> 0,
         completed_batches |-> IF loads THEN loaded.completed_ranges ELSE <<>>,
         failed_batches |-> IF loads THEN loaded.failed_batches ELSE <<>>,
         resumed |-> loads,
         next_start |-> IF loads THEN loaded.next_start
                        ELSE IF start_from = None THEN 0 ELSE start_from.value,
         current_pos |-> IF loads THEN loaded.next_start
                         ELSE IF start_from = None THEN 0 ELSE start_from.value,
         loaded_ranges |-> IF loads THEN loaded.completed_ranges ELSE <<>>,
         attempted |-> <<>>,
         at_start |-> <<>>,
         last |-> "started"]

\* A process starts: main builds the manager and run reads the progress.
Run(batch_size, limits, start_from, resume) ==
    /\ manager.pc # "running"
    /\ scraper_runs < MaxScraperRuns
    /\ manager' = NewManager(batch_size, limits, start_from, resume, output_dir)
    /\ scraper_runs' = scraper_runs + 1
    /\ UNCHANGED output_dir

\* min(current_pos + batch_size - 1, total_lemmas - 1).
BatchEnd(m) == Min(m.current_pos + m.batch_size - 1, total_lemmas - 1)

\* The position after a batch that stays where it is when the batch failed.
next_pos_retrying(success, current_pos, batch_end) ==
    IF success THEN batch_end + 1 ELSE current_pos

\* The position after a batch: the next batch, whether it succeeded or not.
next_pos(success, current_pos, batch_end) ==
    IF success THEN batch_end + 1 ELSE batch_end + 1

\* One pass through the while loop of run, from its test to the next one:
\* the loop is left, or the batch is skipped, or it is scraped and the
\* progress is saved.
Iteration(outcome, saving) ==
    /\ manager.pc = "running"
    /\ UNCHANGED scraper_runs
    /\ IF ~(manager.current_pos < total_lemmas) THEN
            /\ manager' = [manager EXCEPT !.pc = "finished", !.last = "exhausted"]
            /\ UNCHANGED output_dir
       ELSE IF should_stop(manager) THEN
            /\ manager' = [manager EXCEPT !.pc = "finished", !.last = "stopped"]
            /\ UNCHANGED output_dir
       ELSE LET batch_end == BatchEnd(manager)
                batch == <<manager.current_pos, batch_end>>
                scraped == scrape_batch(manager, manager.current_pos, batch_end, outcome)
                noted == [scraped EXCEPT
                            !.attempted = Append(@, batch),
                            !.at_start = Append(@,
                                [total_errors |-> manager.total_errors,
                                 consecutive_errors |-> manager.consecutive_errors]),
                            !.last = IF scrape_succeeded(outcome) THEN "success"
                                     ELSE "failure",
                            !.current_pos = next_pos(scrape_succeeded(outcome),
                                                     manager.current_pos, batch_end)]
            IN  IF InRanges(batch, manager.completed_batches) THEN
                    /\ manager' = [manager EXCEPT !.current_pos = batch_end + 1,
                                                  !.last = "skipped"]
                    /\ UNCHANGED output_dir
                ELSE
                    /\ manager' = noted
                    /\ output_dir' = save_progress(noted,
                            scrape_files(output_dir, manager.current_pos, batch_end, outcome),
                            saving)

\* KeyboardInterrupt during run: main saves the progress and the process ends.
Interrupt(saving) ==
    /\ manager.pc = "running"
    /\ manager' = [manager EXCEPT !.pc = "interrupted"]
    /\ output_dir' = save_progress(manager, output_dir, saving)
    /\ UNCHANGED scraper_runs

DiffIdle ==
    /\ fs = [p \in Paths |-> NoFile]
    /\ disk = "ok"
    /\ out = NoOutput
    /\ Fresh

InitScraper ==
    /\ DiffIdle
    /\ ScraperIdle
    /\ ParaphraserIdle

\* The variables of the comparison scripts.
diff_vars == <<fs, disk, out, stdout, runs, mode, file1_path, file2_path,
               data1, data2, discrepancies, status, prev>>

RunStep ==
    \E batch_size \in BatchSizes, limits \in ErrorLimits,
       start_from \in StartFroms, resume \in BOOLEAN :
        /\ Run(batch_size, limits, start_from, resume)
        /\ UNCHANGED <<diff_vars, paraphraser_vars>>

IterationStep ==
    \E outcome \in ScrapeOutcomes, saving \in SaveOutcomes :
        /\ Iteration(outcome, saving)
        /\ UNCHANGED <<diff_vars, paraphraser_vars>>

InterruptStep ==
    \E saving \in SaveOutcomes :
        /\ Interrupt(saving)
        /\ UNCHANGED <<diff_vars, paraphraser_vars>>

NextScraper == RunStep \/ IterationStep \/ InterruptStep

SpecScraper == InitScraper /\ [][NextScraper]_vars

\* The loop of run goes on: scrape_batch returns (every wait of the driver
\* has a timeout) and the sleep after a failure is at most 300 seconds.
SpecScraperLive ==
    /\ InitScraper
    /\ [][NextScraper]_vars
    /\ WF_vars(IterationStep)


(***************************************************************************)
(* The paraphraser: process_dictionary/00_paraphrase.py.  A text is the    *)
(* sequence of its pieces (words and white space), a dictionary a function *)
(* from lemmas to texts.  The model of the API is the reply it gives to    *)
(* each call: a text, or an exception.                                     *)
(***************************************************************************)

\* Number of entries of the input dictionary.
MaxEntries == 3

\* Number of processes of the paraphraser in one behaviour.
MaxParaphraserRuns == 2

\* save_interval (250 in the source), scaled down.
save_interval == 2

retries == 3

LemmaNames == <<"alpha", "beta", "gamma", "delta", "epsilon">>

WhiteSpace == {" ", "\n"}
ReferenceMarker == "=== REFERENCE LEMMA ==="

\* The entry texts of the input and the texts the model answers with.
PlainText == <<"logos:", " ", "woord", "\n">>
ReferenceText == <<ReferenceMarker, "\n", "zie logos">>
EntryTexts == {PlainText, ReferenceText}
ResponseTexts == {<<"\n", "rede", " ", "spraak", " ", "\n">>, <<"woord">>}

ApiFailure == [ok |-> FALSE]
ApiReplies == {ApiFailure} \cup {[ok |-> TRUE, text |-> t] : t \in ResponseTexts}

\* "..." in entry_text.
Contains(text, piece) == \E i \in 1 .. Len(text) : text[i] = piece

\* str.strip() that strips the front only.
RECURSIVE lstrip(_)
lstrip(text) ==
    IF text # <<>> /\ Head(text) \in WhiteSpace THEN lstrip(Tail(text)) ELSE text

RECURSIVE rstrip(_)
rstrip(text) ==
    IF text # <<>> /\ text[Len(text)] \in WhiteSpace
    THEN rstrip(SubSeq(text, 1, Len(text) - 1))
    ELSE text

\* str.strip().
strip(text) == rstrip(lstrip(text))

\* The retry loop of paraphrase_entry from one attempt on: the text returned
\* and the number of calls of the model so far.
RECURSIVE Attempts(_, _, _)
Attempts(entry_text, replies, attempt) ==
    IF replies[attempt + 1].ok
    THEN [text |-> strip(replies[attempt + 1].text), calls |-> attempt + 1]
    ELSE IF attempt < retries - 1
         THEN Attempts(entry_text, replies, attempt + 1)
         ELSE [text |-> entry_text, calls |-> attempt + 1]

\* paraphrase_entry that gives up after the first failed call.
paraphrase_entry_once(lemma, entry_text, replies) ==
    IF Contains(entry_text, ReferenceMarker)
    THEN [text |-> entry_text, calls |-> 0]
    ELSE IF replies[1].ok
         THEN [text |-> strip(replies[1].text), calls |-> 1]
         ELSE [text |-> entry_text, calls |-> 1]

\* paraphrase_entry; replies[k] is what the k-th call of the model meets.
paraphrase_entry(lemma, entry_text, replies) ==
    IF Contains(entry_text, ReferenceMarker)
    THEN [text |-> entry_text, calls |-> 0]
    ELSE Attempts(entry_text, replies, 0)

\* paraphrased_dict[lemma] = paraphrased_text.
Store(d, lemma, text) ==
    [l \in DOMAIN d \cup {lemma} |-> IF l = lemma THEN text ELSE d[l]]

\* The input dictionaries: MaxEntries entries, each a plain or a reference
\* entry.
InputDicts ==
    {[i \in 1 .. MaxEntries |-> [lemma |-> LemmaNames[i], entry_text |-> texts[i]]] :
        texts \in [1 .. MaxEntries -> EntryTexts]}

InputFiles ==
    {[kind |-> "json", items |-> d] : d \in InputDicts}
        \cup {[kind |-> "missing"], [kind |-> "undecodable"]}

\* What a write of the output file can meet: written; open() refused, the
\* file is as before; an error after open() has truncated the file; the
\* process interrupted while it writes.
WriteOutcomes == {"written", "refused", "truncated", "interrupted"}

\* open(output_path, 'w') and json.dump(paraphrased_dict, f).
WriteOutput(file, paraphrased_dict, outcome) ==
    CASE outcome = "written" -> [kind |-> "json", dict |-> paraphrased_dict]
      [] outcome = "refused" -> file
      [] OTHER -> [kind |-> "undecodable"]

\* The head of process_dictionary_file: the input and the existing output
\* are read.  called records the lemmas this process has called the model
\* for; it is read by no statement of the program.
StartProcess ==
    /\ paraphraser.pc # "running"
    /\ paraphraser_runs < MaxParaphraserRuns
    /\ paraphraser_runs' = paraphraser_runs + 1
    /\ paraphraser' =
          IF original_dict.kind # "json" THEN [pc |-> "no_input"]
          ELSE LET loaded == IF output_file.kind = "json" THEN output_file.dict ELSE <<>>
               IN  [pc |-> "running",
                    paraphrased_dict |-> loaded,
                    loaded |-> loaded,
                    next_item |-> 1,
                    entries_processed_since_last_save |-> 0,
                    called |-> {},
                    final |-> "none"]
    /\ UNCHANGED <<original_dict, output_file, processed>>

\* One pass of the for loop: the entry is skipped, or paraphrased and
\* stored, and the output is written when save_interval entries are due.
ProcessEntry(replies, outcome) ==
    /\ paraphraser.pc = "running"
    /\ paraphraser.next_item <= Len(original_dict.items)
    /\ UNCHANGED <<original_dict, paraphraser_runs>>
    /\ LET item == original_dict.items[paraphraser.next_item]
           lemma == item.lemma
       IN  IF lemma \in DOMAIN paraphraser.paraphrased_dict THEN
                /\ paraphraser' = [paraphraser EXCEPT !.next_item = @ + 1]
                /\ UNCHANGED <<output_file, processed>>
           ELSE LET result == paraphrase_entry(lemma, item.entry_text, replies)
                    paraphrased_dict == Store(paraphraser.paraphrased_dict, lemma, result.text)
                    count == paraphraser.entries_processed_since_last_save + 1
                    due == count >= save_interval
                    stored == [paraphraser EXCEPT
                                  !.paraphrased_dict = paraphrased_dict,
                                  !.called = IF result.calls > 0 THEN @ \cup {lemma}
                                             ELSE @,
                                  !.next_item = @ + 1]
                IN  /\ processed' = processed \cup {lemma}
                    /\ IF ~due THEN
                            /\ paraphraser' = [stored EXCEPT
                                    !.entries_processed_since_last_save = count]
                            /\ UNCHANGED output_file
                       ELSE
                            /\ output_file' = WriteOutput(output_file, paraphrased_dict, outcome)
                            /\ paraphraser' = [stored EXCEPT
                                    !.entries_processed_since_last_save =
                                        IF outcome = "written" THEN 0 ELSE count,
                                    !.pc = IF outcome = "interrupted" THEN "interrupted"
                                           ELSE "running"]

\* The final save after the loop.
FinalSave(outcome) ==
    /\ paraphraser.pc = "running"
    /\ paraphraser.next_item > Len(original_dict.items)
    /\ output_file' = WriteOutput(output_file, paraphraser.paraphrased_dict, outcome)
    /\ paraphraser' = [paraphraser EXCEPT
            !.pc = IF outcome = "interrupted" THEN "interrupted" ELSE "finished",
            !.final = outcome]
    /\ UNCHANGED <<original_dict, processed, paraphraser_runs>>

\* The process is interrupted between two writes (Ctrl+C, which no except
\* clause of the script catches).
InterruptProcess ==
    /\ paraphraser.pc = "running"
    /\ paraphraser' = [paraphraser EXCEPT !.pc = "interrupted"]
    /\ UNCHANGED <<original_dict, output_file, processed, paraphraser_runs>>

\* One call of paraphrase_entry by itself: its arguments and the replies of
\* the model are given, the call returns a text.
EntryTextsOfCall == EntryTexts \cup {<<"vgl.", " ", ReferenceMarker, "\n">>}

InitCall ==
    /\ DiffIdle
    /\ ScraperIdle
    /\ \E entry_text \in EntryTextsOfCall, replies \in [1 .. retries -> ApiReplies] :
          paraphraser = [pc |-> "calling", lemma |-> "alpha",
                         entry_text |-> entry_text, replies |-> replies]
    /\ original_dict = <<>>
    /\ output_file = NoOutputFile
    /\ processed = {}
    /\ paraphraser_runs = 0

Call ==
    /\ paraphraser.pc = "calling"
    /\ LET result == paraphrase_entry(paraphraser.lemma, paraphraser.entry_text,
                                      paraphraser.replies)
       IN  paraphraser' = [pc |-> "returned", lemma |-> paraphraser.lemma,
                           entry_text |-> paraphraser.entry_text,
                           replies |-> paraphraser.replies,
                           text |-> result.text, calls |-> result.calls]
    /\ UNCHANGED <<original_dict, output_file, processed, paraphraser_runs,
                   diff_vars, scraper_vars>>

SpecCall == InitCall /\ [][Call]_vars

InitParaphraser ==
    /\ DiffIdle
    /\ ScraperIdle
    /\ paraphraser = NoParaphraser
    /\ original_dict \in InputFiles
    /\ output_file = NoOutputFile
    /\ processed = {}
    /\ paraphraser_runs = 0

StartProcessStep == StartProcess /\ UNCHANGED <<diff_vars, scraper_vars>>

ProcessEntryStep ==
    \E replies \in [1 .. retries -> ApiReplies], outcome \in WriteOutcomes :
        /\ ProcessEntry(replies, outcome)
        /\ UNCHANGED <<diff_vars, scraper_vars>>

FinalSaveStep ==
    \E outcome \in WriteOutcomes :
        /\ FinalSave(outcome)
        /\ UNCHANGED <<diff_vars, scraper_vars>>

InterruptProcessStep == InterruptProcess /\ UNCHANGED <<diff_vars, scraper_vars>>

NextParaphraser ==
    StartProcessStep \/ ProcessEntryStep \/ FinalSaveStep \/ InterruptProcessStep

SpecParaphraser == InitParaphraser /\ [][NextParaphraser]_vars

(***************************************************************************)
(* C25.  Error thresholds of the batch scraper: run never starts           *)
(* scrape_batch in a state where total_errors >= max_errors or             *)
(* consecutive_errors >= max_consecutive_errors; hence during a run        *)
(* total_errors <= max_errors and consecutive_errors <=                    *)
(* max_consecutive_errors, consecutive_errors <= total_errors, and a       *)
(* successful batch leaves consecutive_errors at 0.                        *)
(***************************************************************************)
Started == manager.pc # "none"

C25_ErrorThresholds ==
    Started =>
        /\ \A i \in 1 .. Len(manager.at_start) :
              /\ manager.at_start[i].total_errors < manager.max_errors
              /\ manager.at_start[i].consecutive_errors < manager.max_consecutive_errors
        /\ manager.total_errors <= manager.max_errors
        /\ manager.consecutive_errors <= manager.max_consecutive_errors
        /\ manager.consecutive_errors <= manager.total_errors
        /\ manager.last = "success" => manager.consecutive_errors = 0

\* A run stopped by the total, with a success between two failures.
C25_Witness ==
    /\ Started
    /\ manager.last = "stopped"
    /\ manager.total_errors = manager.max_errors
    /\ manager.consecutive_errors < manager.total_errors
    /\ manager.consecutive_errors > 0
    /\ Len(manager.at_start) >= 2


(***************************************************************************)
(* C26.  Termination of the batch scraper: with batch_size >= 1, run       *)
(* always terminates: every pass of the loop either leaves it or moves     *)
(* current_pos to batch_end + 1, beyond where it was, whether the batch    *)
(* succeeded, failed or was skipped; no batch range is attempted twice     *)
(* within one run (so a failed batch is never retried).                    *)
(***************************************************************************)
Running == manager.pc = "running"

NoRangeTwice ==
    Started =>
        \A i, j \in 1 .. Len(manager.attempted) :
            manager.attempted[i] = manager.attempted[j] => i = j

LoopAdvances ==
    (Running /\ manager'.pc = "running") =>
        /\ manager'.current_pos = BatchEnd(manager) + 1
        /\ manager'.current_pos > manager.current_pos

RangeSet(ranges) == {ranges[i] : i \in 1 .. Len(ranges)}

\* Where the longest chain of ranges that starts at pos ends, plus one.
RECURSIVE ChainEnd(_, _)
ChainEnd(ranges, pos) ==
    LET fitting == {r \in RangeSet(ranges) : r[1] = pos /\ r[2] >= r[1]}
        ends == {ChainEnd(ranges, r[2] + 1) : r \in fitting}
    IN  IF fitting = {} THEN pos
        ELSE CHOOSE e \in ends : \A other \in ends : other <= e

Covered(id, ranges) == \E r \in RangeSet(ranges) : r[1] <= id /\ id <= r[2]

BelowIsCompleted ==
    \A id \in 0 .. (manager.next_start - 1) : Covered(id, manager.loaded_ranges)

NeverScrapesCompleted ==
    \A i \in 1 .. Len(manager.attempted) :
        /\ manager.attempted[i][1] >= manager.next_start
        /\ ~InRanges(manager.attempted[i], manager.loaded_ranges)

Resumed == Started /\ manager.resumed

C27_ResumePosition ==
    Resumed =>
        /\ manager.next_start = ChainEnd(manager.loaded_ranges, 0)
        /\ BelowIsCompleted
        /\ NeverScrapesCompleted

\* The positions at which a chain of ranges that starts at pos can end,
\* plus one (pos itself for the empty chain).
RECURSIVE ChainEnds(_, _)
ChainEnds(ranges, pos) ==
    LET fitting == {r \in RangeSet(ranges) : r[1] = pos /\ r[2] >= r[1]}
    IN  {pos} \cup UNION {ChainEnds(ranges, r[2] + 1) : r \in fitting}

Disjoint(ranges) ==
    \A r, q \in RangeSet(ranges) : r = q \/ r[2] < q[1] \/ q[2] < r[1]

\* As the code has it: the returned position ends a chain of completed
\* ranges that starts at 0, and the longest one when no two completed
\* ranges overlap; the rest as stated.
C27_ResumeIsSafe ==
    Resumed =>
        /\ manager.next_start \in ChainEnds(manager.loaded_ranges, 0)
        /\ Disjoint(manager.loaded_ranges) =>
              manager.next_start = ChainEnd(manager.loaded_ranges, 0)
        /\ BelowIsCompleted
        /\ NeverScrapesCompleted

\* A resumed run over overlapping ranges that starts before the end of the
\* longest chain and has scraped a batch.
C27_Witness ==
    /\ Resumed
    /\ manager.next_start < ChainEnd(manager.loaded_ranges, 0)
    /\ manager.next_start > 0
    /\ Len(manager.attempted) >= 1


(***************************************************************************)
(* C28.  Across any sequence of resumed runs the bookkeeping saved in      *)
(* progress.json stays consistent: no batch range is listed in both        *)
(* completed_ranges and failed_batches (a batch that failed in an earlier  *)
(* run and succeeds when re-scraped is no longer listed as failed).        *)
(***************************************************************************)
ProgressSaved == output_dir.progress.exists /\ output_dir.progress.valid

C28_BookkeepingConsistent ==
    ProgressSaved =>
        RangeSet(output_dir.progress.completed_ranges)
            \cap RangeSet(output_dir.progress.failed_batches) = {}


(***************************************************************************)
(* C29.  Retry of the paraphraser: for a non-reference entry,              *)
(* paraphrase_entry calls the model at most 3 times, returns the stripped  *)
(* response of the first successful call without further calls, and after  *)
(* the third failed call returns the original entry text unchanged; an     *)
(* entry whose text contains the reference marker is returned unchanged    *)
(* with zero model calls.  (That it never raises is in its translation:    *)
(* every reply, an exception included, yields a returned text.)            *)
(***************************************************************************)
Returned == paraphraser.pc = "returned"

\* The calls that succeed, by number.
Successes(replies) == {k \in 1 .. retries : replies[k].ok}

First(S) == CHOOSE k \in S : \A other \in S : k <= other

\* text is raw without the white space at its two ends.
StrippedOf(text, raw) ==
    /\ text = <<>> \/ (Head(text) \notin WhiteSpace /\ text[Len(text)] \notin WhiteSpace)
    /\ \E i \in 1 .. (Len(raw) + 1), j \in 0 .. Len(raw) :
          /\ text = SubSeq(raw, i, j)
          /\ \A k \in 1 .. Len(raw) : (k < i \/ k > j) => raw[k] \in WhiteSpace

C29_Retry ==
    Returned =>
        LET last == paraphraser
            ok == Successes(last.replies)
        IN  IF Contains(last.entry_text, ReferenceMarker) THEN
                /\ last.calls = 0
                /\ last.text = last.entry_text
            ELSE
                /\ last.calls <= 3
                /\ ok # {} =>
                      /\ last.calls = First(ok)
                      /\ StrippedOf(last.text, last.replies[First(ok)].text)
                /\ ok = {} =>
                      /\ last.calls = 3
                      /\ last.text = last.entry_text


\* A call that succeeded at the third attempt, on a response with white
\* space at both ends.
C29_Witness ==
    /\ Returned
    /\ paraphraser.calls = 3
    /\ paraphraser.replies[3].ok
    /\ paraphraser.text # paraphraser.replies[3].text
    /\ Len(paraphraser.text) > 1


(***************************************************************************)
(* C30.  Resume of the paraphraser: when process_dictionary_file is run    *)
(* again after an interruption, every lemma already present in the         *)
(* existing output file is skipped (no model call) and keeps its stored    *)
(* value, only lemmas absent from the output are paraphrased, and the      *)
(* final output holds exactly one value for every lemma of the input;      *)
(* during a run the output file is rewritten after every save_interval     *)
(* newly processed entries, so that fewer than save_interval processed     *)
(* entries are ever unsaved.                                               *)
(***************************************************************************)
Processing == paraphraser.pc \in {"running", "interrupted", "finished"}

InputLemmas == {original_dict.items[i].lemma : i \in 1 .. Len(original_dict.items)}

\* The lemmas the output file holds a value for.
Saved == IF output_file.kind = "json" THEN DOMAIN output_file.dict ELSE {}

Unsaved == processed \ Saved

SkipsWhatIsPresent ==
    /\ paraphraser.called \cap DOMAIN paraphraser.loaded = {}
    /\ \A lemma \in DOMAIN paraphraser.loaded :
          /\ lemma \in DOMAIN paraphraser.paraphrased_dict
          /\ paraphraser.paraphrased_dict[lemma] = paraphraser.loaded[lemma]

FinalOutputComplete ==
    (paraphraser.pc = "finished" /\ paraphraser.final = "written") =>
        /\ output_file.kind = "json"
        /\ InputLemmas \subseteq DOMAIN output_file.dict
        /\ \A lemma \in DOMAIN paraphraser.loaded :
              output_file.dict[lemma] = paraphraser.loaded[lemma]

C30_Resume ==
    Processing =>
        /\ SkipsWhatIsPresent
        /\ FinalOutputComplete
        /\ Cardinality(Unsaved) < save_interval

\* The parts that hold whatever happens to the writes.
C30_ResumeKeepsWhatIsPresent ==
    Processing => SkipsWhatIsPresent /\ FinalOutputComplete

====
